---- MODULE Spec2Model ----
(***************************************************************************)
(* A model of the actor12 runtime (src/src/*.rs).                          *)
(*                                                                         *)
(* Part I  : the cancellation tree (cancel.rs): TreeNode state, the        *)
(*           children lock, child(), cancel_with_reason(), reset().        *)
(*           Specification SpecTree.                                       *)
(* Part II : one spawned actor (actor.rs), its LinkState reference counts  *)
(*           (link.rs, weak.rs), its inbox (channel.rs), the message       *)
(*           handles (message.rs) and the Multi dispatcher with the reply  *)
(*           cell (multi.rs, handler.rs).  Specifications Spec, FairSpec   *)
(*           and, with fewer callers, SpecFew, FairSpecFew.                *)
(* Part III: a Proxy (proxy.rs): the facade inbox, the proxy task, the     *)
(*           ProxyStates that init() and reset() install, shutdown(), and  *)
(*           the backing actors seen from the proxy.  Specifications       *)
(*           SpecProxy, FairSpecProxy.                                     *)
(***************************************************************************)
EXTENDS Integers, Sequences, FiniteSets, TLC

(***************************************************************************)
(* Bounds of the model.                                                    *)
(***************************************************************************)
\* number of TreeNodes that child() may allocate besides the root token
MaxChildren == 2

\* threads that call into the cancellation tree concurrently
Threads == {"t1", "t2"}

\* messages that callers send to the actor
NMsgs == 2

\* messages that are sent in the specifications of a single caller
\* (SpecFew, FairSpecFew); the other callers never send
FewMsgs == 1

\* strong references user code holds at the same time
MaxLinks == 2

\* ProxyStates that init() and reset() install after the initial one
MaxGen == 2

\* capacity of the inbox (the model's scale of Channel::create(10),
\* actor.rs:162)
InboxCap == 1

(***************************************************************************)
(* PART I -- cancel.rs                                                     *)
(***************************************************************************)
VARIABLES
  state,      \* TreeNode.state: node -> State<T>        (watch::Sender)
  children,   \* TreeNode.children: node -> Seq(node)    (Mutex<Vec<Arc<..>>>)
  lock,       \* holder of each node's children mutex, or "free"
  tpc,        \* thread -> "idle" | "cancel" | "reset"
  tstack,     \* thread -> frames [node, i] of the cancel_with_reason calls
              \*           in progress, innermost first
  targ,       \* thread -> the node of the reset() call in progress
  parent,     \* history: node -> the token whose child() call returned it
  direct,     \* history: node -> it was cancelled by a call on itself
  resetUsed,  \* history: reset() has been called on some token
  selfRet     \* history: the tokens that a child() call on them returned
              \*          (the clone a Cancelled node hands out)

treeVars == <<state, children, lock, tpc, tstack, targ, parent, direct, resetUsed,
              selfRet>>

Nodes == 0..MaxChildren
Root == 0
NoNode == -1

\* cancel.rs:92-95  enum State<T> { Running, Cancelled(CancelReason<T>) }
Running == [tag |-> "Running", value |-> "-", location |-> "-"]

\* cancel.rs:97-101, 121-123  CancelReason { value, location }
CancelReason(v, loc) == [value |-> v, location |-> loc]

Cancelled(reason) ==
  [tag |-> "Cancelled", value |-> reason.value, location |-> reason.location]

\* cancel.rs:60-66  CancelToken::is_cancelled
is_cancelled(s) == s.tag = "Cancelled"

\* A mutation of the token: the stored reason is read as the default one.
reason_of_Default(s) == CancelReason("default", "cancel.rs:107")

\* cancel.rs:68-74  CancelToken::reason (of a cancelled state)
reason_of(s) == CancelReason(s.value, s.location)

\* cancel.rs:43-52  CancelToken::cancel builds the reason from the caller's
\* value and Location::caller(); thread t1 cancels with X, thread t2 with Y
CallerReason(t) == CancelReason(IF t = "t1" THEN "X" ELSE "Y", t)

Born(n) == n = Root \/ parent[n] # NoNode

\* TreeNode::new allocates; the model hands out node ids in order
FreshNode == CHOOSE n \in Nodes : ~Born(n) /\ \A k \in Nodes : ~Born(k) => n <= k

\* A mutation of the state transition: a later cancel overwrites the reason.
send_if_modified_Overwrite(s, reason) == Cancelled(reason)

\* cancel.rs:234-241  the closure given to send_if_modified: Running becomes
\* Cancelled(reason.clone()); "do not re-cancel" a Cancelled state
send_if_modified(s, reason) ==
  IF s.tag = "Running" THEN Cancelled(reason) ELSE s

\* need_cancel: whether send_if_modified reported a modification
need_cancel(s) == s.tag = "Running"

\* A mutation of the propagation: the pass stops after the first child.
PassChildren_FirstOnly(n) == IF children[n] = <<>> THEN <<>> ELSE <<children[n][1]>>

\* cancel.rs:243-247  the children the pass iterates (the locked Vec)
PassChildren(n) == children[n]

\* cancel.rs:227-241  cancel_with_reason enters node n: take its children
\* lock, apply the transition; with nothing to iterate the call returns and
\* drops the guard at once.  `stack` holds the callers' frames.
EnterNode(t, n, reason, stack) ==
  /\ lock[n] = "free"
  /\ state' = [state EXCEPT ![n] = send_if_modified(state[n], reason)]
  /\ IF need_cancel(state[n]) /\ PassChildren(n) # <<>>
       THEN /\ lock' = [lock EXCEPT ![n] = t]
            /\ tstack' = [tstack EXCEPT ![t] = <<[node |-> n, i |-> 1]>> \o stack]
            /\ tpc' = [tpc EXCEPT ![t] = "cancel"]
       ELSE /\ lock' = lock
            /\ tstack' = [tstack EXCEPT ![t] = stack]
            /\ tpc' = [tpc EXCEPT ![t] = IF stack = <<>> THEN "idle" ELSE "cancel"]

\* cancel.rs:43-52  CancelToken::cancel(reason) from thread t on token n
Cancel(t, n) ==
  /\ tpc[t] = "idle"
  /\ Born(n)
  /\ EnterNode(t, n, CallerReason(t), <<>>)
  /\ direct' = [direct EXCEPT ![n] = @ \/ need_cancel(state[n])]
  /\ UNCHANGED <<children, targ, parent, resetUsed, selfRet>>

\* cancel.rs:243-247  one turn of `for child in children.deref()`: recurse
\* into the next or end the loop, drop the guard and return
CancelStep(t) ==
  /\ tpc[t] = "cancel"
  /\ LET f    == Head(tstack[t])
         rest == Tail(tstack[t])
         kids == PassChildren(f.node)
     IN IF f.i <= Len(kids)
          THEN EnterNode(t, kids[f.i], CallerReason(t),
                         <<[node |-> f.node, i |-> f.i + 1]>> \o rest)
          ELSE /\ lock' = [lock EXCEPT ![f.node] = "free"]
               /\ tstack' = [tstack EXCEPT ![t] = rest]
               /\ tpc' = [tpc EXCEPT ![t] = IF rest = <<>> THEN "idle" ELSE "cancel"]
               /\ UNCHANGED state
  /\ UNCHANGED <<children, targ, parent, direct, resetUsed, selfRet>>

\* A mutation of child(): a cancelled parent hands out a fresh Running node.
ChildResult_AlwaysNew(n) == "new"

\* cancel.rs:174-183  the match on the parent's state inside child()
ChildResult(n) == IF state[n].tag = "Running" THEN "new" ELSE "self"

\* cancel.rs:172-184  TreeNode::under the children lock: a Running
\* parent enrols a new node, a Cancelled parent returns a clone of itself
Child(t, n) ==
  /\ tpc[t] = "idle"
  /\ Born(n)
  /\ lock[n] = "free"
  /\ IF ChildResult(n) = "new"
       THEN /\ \E k \in Nodes : ~Born(k)
            /\ children' = [children EXCEPT ![n] = Append(@, FreshNode)]
            /\ parent' = [parent EXCEPT ![FreshNode] = n]
       ELSE UNCHANGED <<children, parent>>
  /\ UNCHANGED <<state, lock, tpc, tstack, targ, direct, resetUsed>>

\* cancel.rs:163  reset, first statement: self.children.lock().clear()
ResetClear(t, n) ==
  /\ tpc[t] = "idle"
  /\ Born(n)
  /\ lock[n] = "free"
  /\ children' = [children EXCEPT ![n] = <<>>]
  /\ tpc' = [tpc EXCEPT ![t] = "reset"]
  /\ targ' = [targ EXCEPT ![t] = n]
  /\ resetUsed' = TRUE
  /\ UNCHANGED <<state, lock, tstack, parent, direct, selfRet>>

\* cancel.rs:164  reset, second statement: state.send_replace(Running)
ResetSet(t) ==
  /\ tpc[t] = "reset"
  /\ state' = [state EXCEPT ![targ[t]] = Running]
  /\ direct' = [direct EXCEPT ![targ[t]] = FALSE]
  /\ tpc' = [tpc EXCEPT ![t] = "idle"]
  /\ targ' = [targ EXCEPT ![t] = NoNode]
  /\ UNCHANGED <<children, lock, tstack, parent, resetUsed, selfRet>>

InitTree ==
  /\ state = [n \in Nodes |-> Running]
  /\ children = [n \in Nodes |-> <<>>]
  /\ lock = [n \in Nodes |-> "free"]
  /\ tpc = [t \in Threads |-> "idle"]
  /\ tstack = [t \in Threads |-> <<>>]
  /\ targ = [t \in Threads |-> NoNode]
  /\ parent = [n \in Nodes |-> NoNode]
  /\ direct = [n \in Nodes |-> FALSE]
  /\ resetUsed = FALSE
  /\ selfRet = {}

(***************************************************************************)
(* PART II -- one actor created by Actor::spawn (actor.rs:159-234)         *)
(***************************************************************************)
VARIABLES
  pc,          \* the actor task: "init" | "idle" (at the select of cycle) |
               \*   "handling" | "terminating" | "exited" | "panicked"
  tok,         \* state of the actor's CancelToken (LinkState.token, ctx.token)
  breakReason, \* the reason the loop broke with (ControlFlow::Break)
  userLinks,   \* strong references held by user code (Link clones, DynLinks,
               \*   Links kept from WeakLink::upgrade)
  initLink,    \* Init.link, the strong clone handed to init (actor.rs:175)
  inbox,       \* the mpsc queue between LinkState.tx and ctx.rx
  tickActive,  \* the tick() future of the current cycle has started
  cur,         \* the message being handled, 0 when none
  cell,        \* the TakeOnce reply cell of the dispatch: "none"|"full"|"empty"
  mpc,         \* message -> caller side: "absent" (a caller that never
               \*   sends) | "new" | "sending" (inside send_to
               \*   with a Link the caller holds) | "weak_sending" (inside
               \*   send_to with the Link a WeakLink upgraded to) | "pending" |
               \*   "failed" (MessageHandle) | "done" (handle consumed)
  ch,          \* message -> where its oneshot reply sender is: "none" |
               \*   "live" (in the envelope or the reply cell) | "held" (with
               \*   the running handler, from take_reply) | "kept" (moved by
               \*   the handler to user code that outlives the invocation) |
               \*   "task" (in the task spawned by reply_async) | "sent" |
               \*   "refused" (send returned Err: the receiver was gone) |
               \*   "dropped" (dropped without a send)
  val,         \* message -> the value given to oneshot::Sender::send
  result,      \* message -> what consuming the handle yielded; with "Reply" the
               \*   caller received val[message]
  sends,       \* history: message -> number of send calls on its reply sender
  procExit,    \* the default crash() has run std::process::exit
  log,         \* the actor state the handlers build: the messages handled so
               \*   far, in order (a counter actor holds its length)
  enq,         \* history: the messages the inbox accepted, in the order their
               \*   sends completed
  cap,         \* the buffer size the inbox was created with (channel.rs:25-27)
  late,        \* history: the messages whose send, not accepted by the inbox
               \*   so far, was issued with the token cancelled or the receiver
               \*   dropped
  timeout,     \* message -> MessageHandle.timeout as reply() used it, 0 = None
  cw,          \* a caller of Link::cancel_and_wait: "none"|"waiting"|"returned"
  strategy,    \* what termination_strategy() of the actor value answers, "-"
               \*   while no loop has broken (the runtime never calls it)
  preCancelled, \* history: the token was Cancelled already when the cycle
               \*   that is at its select started
  asyncRet,    \* what the last reply_async call of the handler in progress
               \*   returned, NoValue when it made none
  aborted      \* history: the messages whose reply_async task was unfinished
               \*   when ctx.futures was dropped

actorVars == <<pc, tok, breakReason, userLinks, initLink, inbox, tickActive,
               cur, cell, mpc, ch, val, result,
               sends, procExit, log, enq, cap, late, timeout, cw, strategy, preCancelled,
                 asyncRet, aborted>>

\* the user side of a relay (message.rs:195-214)
VARIABLES
  relay        \* message -> the MessageHandle<()> its relay returned: "-" (the
               \*   message is not relayed) | "sending" (inside send_to) |
               \*   "ok" (success handle holding the unit reply) | "failed" |
               \*   "got" (reply() yielded Ok(())) | "err" (it yielded SendFailed)

relayVars == <<relay>>

\* the tasks of the actor's JoinSet besides those of reply_async
\* (actor.rs:29, 52, 166)
VARIABLES
  tasks        \* the spawn call that made it ("init": Init::spawn, "ctx":
               \*   ActorContext::spawn) -> "none" | "running" | "done"

taskVars == <<tasks>>

\* a Proxy, its task and its backing actors (proxy.rs)
VARIABLES
  xlinks,      \* clones of the external Link that user code holds (0 or 1)
  xtok,        \* the token of the external Link, which is also the token of
               \*   the initial ProxyState (proxy.rs:31-37): TRUE = cancelled
  facade,      \* the facade inbox (tx in the external Link, rx in the task)
  pstate,      \* Proxy.state: the ProxyState stored last, 0 = the initial one
  gtok,        \* ProxyState -> its token is cancelled (states 1..MaxGen)
  stateq,      \* the state channel (state_tx, state_rx), capacity 1
  proxyAlive,  \* the Proxy value exists (it owns state_tx)
  ppc,         \* the proxy task: "spawned" | "select" | "cancel_wait" (inside
               \*   link.cancel_and_wait) | "relay" (inside link.send_raw) |
               \*   "done" (it broke out of the loop; rx is dropped)
  tstate,      \* the proxy task's local `state`
  cancelOn,    \* the select's precondition !state.token.is_cancelled(), as
               \*   evaluated when the select was entered
  recvOn,      \* the select's precondition on the link being alive, likewise
  pmsg,        \* the message the task took from the facade and is relaying
  bpc,         \* backing actor of a ProxyState: "none" | "init" | "idle" |
               \*   "exited"
  btok,        \* backing actor -> its token is cancelled
  binbox,      \* backing actor -> its inbox
  sd,          \* a caller of shutdown(): "none" | "cancelled" (it has
               \*   cancelled the token) | "waiting" (inside stop.notified())
               \*   | "returned"
  sdgen,       \* the ProxyState that caller loaded
  xcw,         \* a caller of cancel_and_wait on the external Link:
               \*   "none" | "waiting" | "returned"
  fenq,        \* history: the messages the facade inbox accepted, in order
  taken,       \* history: the messages the task took from the facade inbox
  fwd,         \* history: the messages a backing inbox accepted, in order
  blog         \* history: the messages the backing actors handled

proxyVars == <<xlinks, xtok, facade, pstate, gtok, stateq, proxyAlive, ppc,
               tstate, cancelOn, recvOn, pmsg, bpc, btok, binbox, sd, sdgen,
               xcw, fenq, taken, fwd, blog>>

\* an observer of the tick hook
VARIABLES
  tickInbox    \* history: {q} where q is the inbox as it was when the last
               \*   observed tick() completed, {} when none has

tickVars == <<tickInbox>>

\* one MessageHandle as a value (message.rs:15-20)
VARIABLES
  hnd,         \* the handle: its fields receiver, sent_successfully,
               \*   send_error, timeout (0 = None)
  hpc,         \* "none" (not built) | "held" by the caller | "moved" into
               \*   the call that consumed it
  hch,         \* the oneshot channel behind the receiver: "-" (none) |
               \*   "empty" | "sent" | "closed"
  hcalls,      \* history: the calls made on the handle, in order
  hres         \* what the consuming call returned, "none" before

handleVars == <<hnd, hpc, hch, hcalls, hres>>

vars == <<treeVars, actorVars, relayVars, taskVars, proxyVars, tickVars,
          handleVars>>

Gens == 1..MaxGen

\* proxy.rs:30-40  Proxy::new: the external Link and the initial
\* ProxyState share one token, there is no backing link, and the proxy
\* task is spawned with that state
InitProxy ==
  /\ xlinks = 1
  /\ xtok = FALSE
  /\ facade = <<>>
  /\ pstate = 0
  /\ gtok = [g \in Gens |-> FALSE]
  /\ stateq = <<>>
  /\ proxyAlive = TRUE
  /\ ppc = "spawned"
  /\ tstate = 0
  /\ cancelOn = FALSE
  /\ recvOn = FALSE
  /\ pmsg = 0
  /\ bpc = [g \in Gens |-> "none"]
  /\ btok = [g \in Gens |-> FALSE]
  /\ binbox = [g \in Gens |-> <<>>]
  /\ sd = "none"
  /\ sdgen = 0
  /\ xcw = "none"
  /\ fenq = <<>>
  /\ taken = <<>>
  /\ fwd = <<>>
  /\ blog = <<>>

Msgs == 1..NMsgs

\* values of the actor's Cancel type: Default::default() and another one
CancelValues == {"default", "stop"}

\* reply values: what a handler computes for message m, and the values that
\* FromError builds from an ActorError (error.rs:11-39)
NoValue == [k |-> "-", m |-> 0, n |-> 0]

\* the position of m among the handled messages, 0 when it was not handled
Seen(m) ==
  IF \E i \in 1..Len(log) : log[i] = m
    THEN CHOOSE i \in 1..Len(log) : log[i] = m
    ELSE 0

\* what the handler of message m computes: m's own result and, as a counter
\* actor answers Increment(1), the count its handling left in the state
Val(m) == [k |-> "val", m |-> m, n |-> Seen(m)]
from_err(e) == [k |-> e, m |-> 0, n |-> 0]

\* values of Duration given to MessageHandle::timeout
Durations == {1, 2}

\* actor.rs:73-77  enum Terminate
Terminate == {"ProcessAll", "Exit"}

\* A mutation of the sentinel test: no value counts as the sentinel.
is_async_Never(v) == FALSE

\* handler.rs:28-36  ActorReply::is_async for anyhow::Result<T>
is_async(v) == v.k = "AsyncReply"

\* the senders of the inbox live in LinkState only (link.rs:41-46); temporary
\* Links exist while a WeakLink send is inside send_to (message.rs:288-290)
TempLinks == Cardinality({m \in Msgs : mpc[m] = "weak_sending"})

\* Arc::strong_count of the LinkState
Strong == userLinks + (IF initLink THEN 1 ELSE 0) + TempLinks

\* a Link is borrowed while a send through it is inside send_to, and while
\* cancel_and_wait(&self) is suspended (link.rs:191-194)
Borrowed ==
  IF (\E m \in Msgs : mpc[m] = "sending") \/ cw = "waiting" THEN 1 ELSE 0

\* ctx.rx is dropped when the actor task ends or unwinds (actor.rs:192, 211)
RxClosed == pc \in {"exited", "panicked"}

\* A mutation of alive(): it follows the token as well as the receiver.
alive_ByToken == ~RxClosed /\ ~is_cancelled(tok)

\* link.rs:85-87  Link::alive
alive == ~RxClosed

\* A mutation of upgrade: a WeakLink always yields a Link.
upgrade_Always == "Some"

\* A mutation of upgrade: it follows the actor loop, not the strong count.
upgrade_ByAlive == IF alive THEN "Some" ELSE "None"

\* weak.rs:32-34  WeakLink::upgrade (Weak::upgrade of the LinkState)
upgrade == IF Strong > 0 THEN "Some" ELSE "None"

\* the reasons the runtime itself cancels with, by their call sites
DropReason == CancelReason("default", "link.rs:210")
InitErrReason(c) == CancelReason(c, "actor.rs:191")
LinkCancelReason(c) == CancelReason(c, "link.rs:188")
\* cancel.rs:103-110  CancelReason::default(), built at actor.rs:125, 133
DefaultReason == CancelReason("default", "cancel.rs:107")
CancelAndWaitReason(c) == CancelReason(c, "link.rs:192")

\* A mutation of the drop: every released Link cancels, not only the last.
LinkStateDrop_EveryLink(t, strongAfter) == send_if_modified(t, DropReason)

\* link.rs:208-212  Drop for LinkState, run by the Arc when the last strong
\* reference is released: token.cancel(A::Cancel::default())
LinkStateDrop(t, strongAfter) ==
  IF strongAfter = 0 THEN send_if_modified(t, DropReason) ELSE t

\* the oneshot::Receiver of message m is gone: every operation that consumes
\* the MessageHandle takes it by value and drops it with its receiver
\* (message.rs:63, 85, 100)
ReceiverGone(m) == mpc[m] = "done"

\* oneshot::Sender::send(v) on the reply channel of message m: with the
\* receiver gone it returns Err(v) and nothing is delivered
SendOn(m, v) ==
  /\ ch' = [ch EXCEPT ![m] = IF ReceiverGone(m) THEN "refused" ELSE "sent"]
  /\ val' = [val EXCEPT ![m] = IF ReceiverGone(m) THEN @ ELSE v]
  /\ sends' = [sends EXCEPT ![m] = @ + 1]

InInbox(m) == \E i \in 1..Len(inbox) : inbox[i] = m

\* A mutation of the teardown: envelopes left in the inbox are not dropped.
OwnedByCtx_NotQueued(m) == ch[m] = "task" \/ m = cur

\* the reply senders the actor task owns: in the envelopes queued in ctx.rx,
\* in the tasks of ctx.futures (a JoinSet, aborted on drop), in the dispatch
\* in progress
OwnedByCtx(m) == InInbox(m) \/ ch[m] = "task" \/ m = cur

\* actor.rs:192, 211 and the unwinding of a panic: ctx and the dispatch in
\* progress are dropped, with the reply senders they own, and the actor
\* value has been consumed or dropped
DropCtx(newpc) ==
  /\ pc' = newpc
  /\ ch' = [m \in Msgs |->
       IF ch[m] \in {"live", "held", "task"} /\ OwnedByCtx(m)
         THEN "dropped" ELSE ch[m]]
  /\ inbox' = <<>>
  /\ cur' = 0
  /\ cell' = "none"
  /\ tickActive' = FALSE
  /\ strategy' = "-"
  /\ preCancelled' = FALSE
  /\ asyncRet' = NoValue
  /\ aborted' = aborted \cup {m \in Msgs : ch[m] = "task"}

(*------------------------- user side: links ------------------------------*)

\* link.rs:63-68 Clone for Link, link.rs:196-205 to_dyn
CloneLink ==
  /\ userLinks >= 1 /\ userLinks < MaxLinks
  /\ userLinks' = userLinks + 1
  /\ UNCHANGED <<pc, tok, breakReason, initLink, inbox, tickActive, cur, cell, mpc, ch, val, result, sends, procExit,
                 log, enq, cap, late, timeout, cw, strategy, preCancelled,
                 asyncRet, aborted>>

\* a Link (or DynLink) goes out of scope
DropLink ==
  /\ userLinks - 1 >= Borrowed
  /\ userLinks' = userLinks - 1
  /\ tok' = LinkStateDrop(tok, Strong - 1)
  /\ UNCHANGED <<pc, breakReason, initLink, inbox, tickActive, cur, cell, mpc, ch, val, result, sends, procExit,
                 log, enq, cap, late, timeout, cw, strategy, preCancelled,
                 asyncRet, aborted>>

\* weak.rs:32-34  WeakLink::upgrade, the caller keeping the Link it gets
Upgrade ==
  /\ IF upgrade = "Some"
       THEN userLinks < MaxLinks /\ userLinks' = userLinks + 1
       ELSE userLinks' = userLinks
  /\ UNCHANGED <<pc, tok, breakReason, initLink, inbox, tickActive, cur, cell, mpc, ch, val, result, sends, procExit,
                 log, enq, cap, late, timeout, cw, strategy, preCancelled,
                 asyncRet, aborted>>

\* link.rs:187-189  Link::cancel(reason)
LinkCancel(c) ==
  /\ userLinks >= 1
  /\ tok' = send_if_modified(tok, LinkCancelReason(c))
  /\ UNCHANGED <<pc, breakReason, userLinks, initLink, inbox, tickActive, cur,
                 cell, mpc, ch, val, result, sends,
                 procExit,
                 log, enq, cap, late, timeout, cw, strategy, preCancelled,
                 asyncRet, aborted>>

\* weak.rs:36-40  WeakLink::cancel(reason): only through an upgraded Link
WeakCancel(c) ==
  /\ tok' = IF upgrade = "Some" THEN send_if_modified(tok, LinkCancelReason(c))
                                ELSE tok
  /\ UNCHANGED <<pc, breakReason, userLinks, initLink, inbox, tickActive, cur,
                 cell, mpc, ch, val, result, sends,
                 procExit,
                 log, enq, cap, late, timeout, cw, strategy, preCancelled,
                 asyncRet, aborted>>

\* A mutation of the barrier: closed() is ready once the loop has broken.
closed_AtBreak == pc \in {"terminating", "exited", "panicked"}

\* channel.rs:72-74  mpsc::Sender::closed() is ready when the receiver has
\* been dropped
closed == RxClosed

\* link.rs:191-192  Link::cancel_and_wait(reason): token.cancel(reason),
\* then the caller is suspended in tx.closed()
CancelAndWait(c) ==
  /\ cw = "none"
  /\ userLinks >= 1
  /\ tok' = send_if_modified(tok, CancelAndWaitReason(c))
  /\ cw' = "waiting"
  /\ UNCHANGED <<pc, breakReason, userLinks, initLink, inbox, tickActive, cur,
                 cell, mpc, ch, val, result, sends, procExit,
                 log, enq, cap, late, timeout, strategy, preCancelled,
                 asyncRet, aborted>>

\* link.rs:193  tx.closed().await is ready: cancel_and_wait returns
CancelAndWaitReturn ==
  /\ cw = "waiting"
  /\ closed
  /\ cw' = "returned"
  /\ UNCHANGED <<pc, tok, breakReason, userLinks, initLink, inbox, tickActive,
                 cur, cell, mpc, ch, val, result, sends, procExit,
                 log, enq, cap, late, timeout, strategy, preCancelled,
                 asyncRet, aborted>>

(*------------------------- user side: sending ----------------------------*)

\* a send is being issued to an actor that was cancelled or whose receiver
\* is dropped
IssuedLate == RxClosed \/ is_cancelled(tok)

\* message.rs:244-247  HandlerMessage::send_to builds the envelope and calls
\* sender.send through a Link the caller holds
StrongSend(m) ==
  /\ mpc[m] = "new"
  /\ userLinks >= 1
  /\ mpc' = [mpc EXCEPT ![m] = "sending"]
  /\ ch' = [ch EXCEPT ![m] = "live"]
  /\ late' = IF IssuedLate THEN late \cup {m} ELSE late
  /\ UNCHANGED <<pc, tok, breakReason, userLinks, initLink, inbox, tickActive,
                 cur, cell, val, result, sends, procExit,
                 log, enq, cap, timeout, cw, strategy, preCancelled,
                 asyncRet, aborted>>

\* A mutation of the weak send: a dead actor's message is sent all the same.
WeakSendBranch_Ignore == "Some"

\* message.rs:288  `if let Some(link) = weak_link.upgrade()`
WeakSendBranch == upgrade

\* message.rs:287-297  HandlerMessage::weak_send_to: with a Link, send_to;
\* without, a handle whose reply is already from_err(ActorError::Dead)
WeakSend(m) ==
  /\ mpc[m] = "new"
  /\ IF WeakSendBranch = "Some"
       THEN /\ mpc' = [mpc EXCEPT ![m] = "weak_sending"]
            /\ ch' = [ch EXCEPT ![m] = "live"]
            /\ late' = IF IssuedLate THEN late \cup {m} ELSE late
            /\ UNCHANGED <<val, sends>>
       ELSE /\ mpc' = [mpc EXCEPT ![m] = "pending"]
            /\ SendOn(m, from_err("Dead"))
            /\ late' = late
  /\ UNCHANGED <<pc, tok, breakReason, userLinks, initLink, inbox, tickActive,
                 cur, cell, result, procExit,
                 log, enq, cap, timeout, cw, strategy, preCancelled,
                 asyncRet, aborted>>

\* A mutation of the inbox: it is unbounded.
HasRoom_Unbounded(q, c) == TRUE

\* channel.rs:25-27  mpsc::channel(buffer): send waits while buffer
\* messages are queued
HasRoom(q, c) == Len(q) < c

\* A mutation of the send: a dropped receiver does not fail it.
SendRefused_Never == FALSE

\* A mutation of the send: a cancelled actor refuses messages.
SendRefused_Cancelled == RxClosed \/ is_cancelled(tok)

\* channel.rs:68-70  mpsc::Sender::send returns Err exactly when the
\* receiver has been dropped
SendRefused == RxClosed

\* message.rs:90-92, 95-97  was_sent() and send_error() of the handle of m
was_sent(m) == mpc[m] # "failed"
send_error(m) == IF mpc[m] = "failed" THEN "Some" ELSE "None"

\* message.rs:247-250 with channel.rs:68-70  sender.send(..).await returns:
\* Err when the receiver is gone (the envelope comes back in the error and is
\* dropped), Ok once the queue had room.  A WeakLink send then drops the
\* Link it had upgraded (message.rs:288-290).
SendComplete(m) ==
  /\ mpc[m] \in {"sending", "weak_sending"}
  /\ relay[m] = "-"
  /\ IF SendRefused
       THEN /\ mpc' = [mpc EXCEPT ![m] = "failed"]
            /\ ch' = [ch EXCEPT ![m] = "dropped"]
            /\ inbox' = inbox
            /\ enq' = enq
       ELSE /\ HasRoom(inbox, cap)
            /\ inbox' = Append(inbox, m)
            /\ enq' = Append(enq, m)
            /\ mpc' = [mpc EXCEPT ![m] = "pending"]
            /\ ch' = ch
  /\ late' = IF SendRefused THEN late ELSE late \ {m}
  /\ tok' = IF mpc[m] = "weak_sending" THEN LinkStateDrop(tok, Strong - 1)
                                       ELSE tok
  /\ UNCHANGED <<pc, breakReason, userLinks, initLink, tickActive, cur, cell, val, result, sends, procExit,
                 log, cap, timeout, cw, strategy, preCancelled,
                 asyncRet, aborted>>

(*------------------------- user side: relaying --------------------------*)

\* envelope.rs:22-25 and message.rs:189-191, 202  the caller makes
\* (envelope, response_rx) with Envelope::new, wraps the envelope in
\* RelayMessage::new and calls send_to, which wraps it in Multi::new and
\* calls sender.send
RelaySend(m) ==
  /\ StrongSend(m)
  /\ relay' = [relay EXCEPT ![m] = "sending"]

\* A mutation of the relay: the handle is a success handle in every case.
RelayHandle_AlwaysOk(refused) == "ok"

\* message.rs:203-211  the match on the result of sender.send: Ok(()) gives
\* MessageHandle::success of a channel on which () was already sent, Err
\* gives MessageHandle::failed("Relay failed")
RelayHandle(refused) == IF refused THEN "failed" ELSE "ok"

\* message.rs:202-212  sender.send(Multi::new(envelope)).await returns and
\* the relay handle is made; response_rx stays with the caller, and on Err
\* the envelope is dropped with the error
RelayComplete(m) ==
  /\ mpc[m] = "sending" /\ relay[m] = "sending"
  /\ IF SendRefused
       THEN /\ ch' = [ch EXCEPT ![m] = "dropped"]
            /\ inbox' = inbox
            /\ enq' = enq
       ELSE /\ HasRoom(inbox, cap)
            /\ inbox' = Append(inbox, m)
            /\ enq' = Append(enq, m)
            /\ ch' = ch
  /\ relay' = [relay EXCEPT ![m] = RelayHandle(SendRefused)]
  /\ mpc' = [mpc EXCEPT ![m] = "pending"]
  /\ late' = IF SendRefused THEN late ELSE late \ {m}
  /\ UNCHANGED <<pc, tok, breakReason, userLinks, initLink, tickActive, cur, cell,
                 val, result, sends, procExit, log, cap, timeout, cw, strategy, preCancelled,
                 asyncRet, aborted>>

\* message.rs:63-81  reply() on the handle the relay returned: Ok(()) from
\* the channel that already holds it, SendFailed from a failed handle
RelayReply(m) ==
  /\ relay[m] \in {"ok", "failed"}
  /\ relay' = [relay EXCEPT ![m] = IF @ = "ok" THEN "got" ELSE "err"]
  /\ UNCHANGED actorVars

(*------------------------- user side: the handle -------------------------*)

Consume(m, r) ==
  /\ mpc' = [mpc EXCEPT ![m] = "done"]
  /\ result' = [result EXCEPT ![m] = r]
  /\ UNCHANGED <<pc, tok, breakReason, userLinks, initLink, inbox, tickActive,
                 cur, cell, ch, val, sends, procExit,
                 log, enq, cap, late, timeout, cw, strategy, preCancelled,
                 asyncRet, aborted>>

\* message.rs:64-68  reply() on a handle made by MessageHandle::failed
ReplySendFailed(m) ==
  /\ mpc[m] = "failed"
  /\ Consume(m, "SendFailed")

\* message.rs:70-80  reply(): the receiver yields the value that was sent
ReplyRecv(m) ==
  /\ mpc[m] = "pending" /\ ch[m] = "sent"
  /\ Consume(m, "Reply")

\* message.rs:75, 79  reply(): the sender was dropped unfired
ReplyRecvFailed(m) ==
  /\ mpc[m] = "pending" /\ ch[m] = "dropped"
  /\ Consume(m, "RecvFailed")

\* A mutation of the error: Timeout carries a fixed duration.
TimeoutOf_Fixed(d) == 1

\* message.rs:76  Err(MessageError::Timeout { timeout })
TimeoutOf(d) == d

\* message.rs:57-60  timeout(d) on its own: the builder stores Some(d) and
\* hands the handle back
HandleTimeout(m, d) ==
  /\ mpc[m] \in {"pending", "failed"}
  /\ timeout[m] # d
  /\ timeout' = [timeout EXCEPT ![m] = d]
  /\ UNCHANGED <<pc, tok, breakReason, userLinks, initLink, inbox, tickActive,
                 cur, cell, mpc, ch, val, result, sends, procExit,
                 log, enq, cap, late, cw, strategy, preCancelled,
                 asyncRet, aborted>>

\* message.rs:57-60, 73-77  timeout(d).reply(), or reply() on a handle that
\* holds Some(d): d elapses before the receiver is ready (tokio's timeout
\* polls the receiver first); the error carries the handle's timeout
ReplyTimeout(m, d) ==
  /\ mpc[m] = "pending" /\ ch[m] \in {"live", "held", "kept", "task"}
  /\ timeout[m] \in {0, d}
  /\ mpc' = [mpc EXCEPT ![m] = "done"]
  /\ result' = [result EXCEPT ![m] = "Timeout"]
  /\ timeout' = [timeout EXCEPT ![m] = TimeoutOf(d)]
  /\ UNCHANGED <<pc, tok, breakReason, userLinks, initLink, inbox, tickActive,
                 cur, cell, ch, val, sends, procExit,
                 log, enq, cap, late, cw, strategy, preCancelled,
                 asyncRet, aborted>>

\* message.rs:117-119  TryRecvError::Closed => Err(SendFailed("Channel closed"))
try_recv_closed == "try:SendFailed"

\* message.rs:100-121  what try_reply returns for the handle of m: the
\* send error of a failed handle, else by receiver.try_recv()
try_reply(m) ==
  IF mpc[m] = "failed" THEN "try:SendFailed"
  ELSE IF ch[m] = "sent" THEN "try:Some"
  ELSE IF ch[m] = "dropped" THEN try_recv_closed
  ELSE "try:None"

\* A mutation of try_reply: after Ok(None) the caller still has the handle.
AfterTryReply_Retain(r) == IF r = "try:None" THEN "pending" ELSE "done"

\* message.rs:100  try_reply(mut self): the handle is taken by value, so it
\* is dropped when the call returns, and with it the receiver that line 114
\* put back into it
AfterTryReply(r) == "done"

\* message.rs:100-121  try_reply()
TryReply(m) ==
  /\ mpc[m] \in {"pending", "failed"}
  /\ mpc' = [mpc EXCEPT ![m] = AfterTryReply(try_reply(m))]
  /\ result' = [result EXCEPT ![m] = try_reply(m)]
  /\ UNCHANGED <<pc, tok, breakReason, userLinks, initLink, inbox, tickActive,
                 cur, cell, ch, val, sends, procExit,
                 log, enq, cap, late, timeout, cw, strategy, preCancelled,
                 asyncRet, aborted>>

\* message.rs:85-88  forget()
Forget(m) ==
  /\ mpc[m] \in {"pending", "failed"}
  /\ Consume(m, "Forgotten")

(*------------------------- child tasks -----------------------------------*)

TaskIds == {"init", "ctx"}

\* A mutation of the task set: its tasks are detached, not aborted.
JoinSetAlive_Detached == TRUE

\* actor.rs:166, 192, 199, 211  the JoinSet is owned by the actor task
\* (join_set, then ctx.futures) and is dropped with it; dropping a JoinSet
\* aborts its tasks
JoinSetAlive == pc \notin {"exited", "panicked"}

\* actor.rs:65-70  Init::spawn, called by init
InitSpawn ==
  /\ pc = "init"
  /\ tasks["init"] = "none"
  /\ tasks' = [tasks EXCEPT !["init"] = "running"]

\* actor.rs:40-42  ActorContext::spawn, called by a handler (Exec.ctx) or
\* by terminate, which owns ctx
CtxSpawn ==
  /\ pc \in {"handling", "terminating"}
  /\ tasks["ctx"] = "none"
  /\ tasks' = [tasks EXCEPT !["ctx"] = "running"]

\* a spawned task is polled and runs to its end
TaskDone(t) ==
  /\ JoinSetAlive
  /\ tasks[t] = "running"
  /\ tasks' = [tasks EXCEPT ![t] = "done"]

(*------------------------- the actor task --------------------------------*)

\* A mutation of the loop: cycles are polled while init is still pending.
CanPoll_BeforeInit == pc \in {"init", "idle"}

\* A mutation of the loop: a cycle is polled while a handler is running.
CanPoll_Always == pc \in {"idle", "handling"}

\* actor.rs:204-209  the loop awaits one cycle at a time; the select of a
\* cycle is being polled
CanPoll == pc = "idle"

\* A mutation of the reply cell: taking leaves the sender in the cell.
AfterTake_Copy(c) == c

\* handler.rs:94, 98 and multi.rs:80-81  TakeOnce::take empties the cell
AfterTake(c) == "empty"

\* the init future drops the Init context, and Init.link with it, before
\* it completes (actor.rs:171-176: user code owns ctx)
InitDropLink ==
  /\ pc = "init" /\ initLink
  /\ initLink' = FALSE
  /\ tok' = LinkStateDrop(tok, Strong - 1)
  /\ UNCHANGED <<pc, breakReason, userLinks, inbox, tickActive, cur, cell, mpc, ch, val, result, sends, procExit,
                 log, enq, cap, late, timeout, cw, strategy, preCancelled,
                 asyncRet, aborted>>

\* actor.rs:182-185, 196-202  init returned Ok(state): enter the loop
InitOk ==
  /\ pc = "init"
  /\ pc' = "idle"
  /\ initLink' = FALSE
  /\ tok' = IF initLink THEN LinkStateDrop(tok, Strong - 1) ELSE tok
  /\ preCancelled' = is_cancelled(tok')
  /\ UNCHANGED asyncRet
  /\ UNCHANGED aborted
  /\ UNCHANGED <<breakReason, userLinks, inbox, tickActive, cur, cell, mpc, ch, val, result, sends, procExit,
                 log, enq, cap, late, timeout, cw, strategy>>

\* A mutation of the init failure: the task goes on to terminate.
AfterInitErr_Terminate == "terminating"

\* actor.rs:191-192  `token.cancel(cancel); return;`: the task ends there
AfterInitErr == "exited"

\* actor.rs:186-193  init returned Err(cancel): token.cancel(cancel); return
InitErr(c) ==
  /\ pc = "init"
  /\ initLink' = FALSE
  /\ tok' = send_if_modified(
              IF initLink THEN LinkStateDrop(tok, Strong - 1) ELSE tok,
              InitErrReason(c))
  /\ DropCtx(AfterInitErr)
  /\ UNCHANGED <<breakReason, userLinks, mpc, val, result,
                 sends, procExit,
                 log, enq, cap, late, timeout, cw>>

\* actor.rs:127  the select polls Self::tick(self)
TickStart ==
  /\ CanPoll
  /\ ~tickActive
  /\ tickActive' = TRUE
  /\ UNCHANGED <<pc, tok, breakReason, userLinks, initLink, inbox, cur, cell, mpc, ch, val, result, sends, procExit,
                 log, enq, cap, late, timeout, cw, strategy, preCancelled,
                 asyncRet, aborted>>

\* A mutation of the select: the recv() future that is dropped when tick
\* wins takes the oldest message with it.
recv_dropped_Lossy(q) == IF q = <<>> THEN q ELSE Tail(q)

\* actor.rs:123-136  when the tick branch completes the select drops the
\* rx.recv() future of this cycle unfired: the queue is as it was
recv_dropped(q) == q

\* actor.rs:127-129  tick completed: the cycle returns Continue
TickDone ==
  /\ CanPoll /\ tickActive
  /\ tickActive' = FALSE
  /\ inbox' = recv_dropped(inbox)
  /\ preCancelled' = is_cancelled(tok)
  /\ UNCHANGED asyncRet
  /\ UNCHANGED aborted
  /\ UNCHANGED <<pc, tok, breakReason, userLinks, initLink, cur, cell, mpc, ch, val, result, sends, procExit,
                 log, enq, cap, late, timeout, cw, strategy>>

\* actor.rs:124-126  cancelled_or_dropped() is ready: Break(reason)
CycleCancel ==
  /\ CanPoll
  /\ is_cancelled(tok)
  /\ pc' = "terminating"
  /\ breakReason' = reason_of(tok)
  /\ tickActive' = FALSE
  /\ strategy' \in Terminate
  /\ preCancelled' = FALSE
  /\ UNCHANGED asyncRet
  /\ UNCHANGED aborted
  /\ UNCHANGED <<tok, userLinks, initLink, inbox, cur, cell, mpc, ch, val, result, sends, procExit,
                 log, enq, cap, late, timeout, cw>>

\* A mutation of the queue: recv() yields the newest message.
recv_Newest(q) == q[Len(q)]

\* channel.rs:43-45  mpsc::Receiver::recv yields the oldest queued message
recv(q) == Head(q)

\* A mutation of the queue: recv() leaves the message it yields queued.
dequeue_Keep(q) == q

\* channel.rs:43-45  the message recv() yields is removed from the queue
dequeue(q) == SelectSeq(q, LAMBDA x : x # recv(q))

\* actor.rs:130-132 with multi.rs:64-71  recv() yields Some(msg): the
\* dispatcher splits the envelope and stores the reply sender in the cell,
\* and the handler works on the actor state
CycleRecv ==
  /\ CanPoll
  /\ inbox # <<>>
  /\ pc' = "handling"
  /\ cur' = recv(inbox)
  /\ inbox' = dequeue(inbox)
  /\ log' = Append(log, recv(inbox))
  /\ cell' = "full"
  /\ tickActive' = FALSE
  /\ preCancelled' = FALSE
  /\ asyncRet' = NoValue
  /\ UNCHANGED aborted
  /\ UNCHANGED <<tok, breakReason, userLinks, initLink, mpc,
                 ch, val, result, sends, procExit,
                 enq, cap, late, timeout, cw, strategy>>

\* actor.rs:133  recv() yields None (queue empty, LinkState and its sender
\* gone): Break(Default::default())
CycleClosed ==
  /\ CanPoll
  /\ inbox = <<>> /\ Strong = 0
  /\ pc' = "terminating"
  /\ breakReason' = DefaultReason
  /\ tickActive' = FALSE
  /\ strategy' \in Terminate
  /\ preCancelled' = FALSE
  /\ UNCHANGED asyncRet
  /\ UNCHANGED aborted
  /\ UNCHANGED <<tok, userLinks, initLink, inbox, cur, cell, mpc, ch, val, result, sends, procExit,
                 log, enq, cap, late, timeout, cw>>

\* the actor task panics: unwinding drops the actor state and ctx
Panic ==
  /\ DropCtx("panicked")
  /\ UNCHANGED <<tok, breakReason, userLinks, initLink, mpc, val,
                 result, sends, procExit,
                 log, enq, cap, late, timeout, cw>>

\* handler.rs:93-95  Call::take_reply: reply.take().unwrap() hands the
\* sender to the handler
HTakeReply ==
  /\ pc = "handling"
  /\ IF cell = "full"
       THEN /\ cell' = AfterTake(cell)
            /\ ch' = [ch EXCEPT ![cur] = "held"]
            /\ UNCHANGED <<pc, tok, breakReason, userLinks, initLink, inbox,
                           tickActive, cur, mpc, val, result, sends, procExit,
                 log, enq, cap, late, timeout, cw, strategy, preCancelled,
                 asyncRet, aborted>>
       ELSE Panic

\* A mutation of reply_async: the sentinel is returned whatever the cell.
reply_async_Sentinel(c) == from_err("AsyncReply")

\* handler.rs:98-101, 111  what Call::reply_async returns: the sentinel
\* when it found the sender in the cell, from_err(ReplyTaken) when not
reply_async(c) ==
  IF c = "full" THEN from_err("AsyncReply") ELSE from_err("ReplyTaken")

\* handler.rs:97-112  Call::reply_async(fut): take the cell and spawn the
\* task that sends fut's output; with the cell already taken it returns
\* from_err(ReplyTaken) and spawns nothing
HReplyAsync ==
  /\ pc = "handling"
  /\ IF cell = "full"
       THEN /\ cell' = AfterTake(cell)
            /\ ch' = [ch EXCEPT ![cur] = "task"]
       ELSE UNCHANGED <<cell, ch>>
  /\ asyncRet' = reply_async(cell)
  /\ UNCHANGED aborted
  /\ UNCHANGED <<pc, tok, breakReason, userLinks, initLink, inbox, tickActive,
                 cur, mpc, val, result, sends, procExit,
                 log, enq, cap, late, timeout, cw, strategy, preCancelled>>

\* the handler sends on the sender it took with take_reply
HSendHeld ==
  /\ pc = "handling"
  /\ ch[cur] = "held"
  /\ SendOn(cur, Val(cur))
  /\ UNCHANGED <<pc, tok, breakReason, userLinks, initLink, inbox, tickActive,
                 cur, cell, mpc, result, procExit,
                 log, enq, cap, late, timeout, cw, strategy, preCancelled,
                 asyncRet, aborted>>

\* the handler moves the sender it took with take_reply (an owned
\* oneshot::Sender, handler.rs:93) to code that outlives the invocation
HKeep ==
  /\ pc = "handling"
  /\ ch[cur] = "held"
  /\ ch' = [ch EXCEPT ![cur] = "kept"]
  /\ UNCHANGED <<pc, tok, breakReason, userLinks, initLink, inbox, tickActive,
                 cur, cell, mpc, val, result, sends, procExit,
                 log, enq, cap, late, timeout, cw, strategy, preCancelled,
                 asyncRet, aborted>>

\* user code sends on a sender it kept
KeptSend(m) ==
  /\ ch[m] = "kept"
  /\ SendOn(m, Val(m))
  /\ UNCHANGED <<pc, tok, breakReason, userLinks, initLink, inbox, tickActive,
                 cur, cell, mpc, result, procExit,
                 log, enq, cap, late, timeout, cw, strategy, preCancelled,
                 asyncRet, aborted>>

\* user code drops a sender it kept
KeptDrop(m) ==
  /\ ch[m] = "kept"
  /\ ch' = [ch EXCEPT ![m] = "dropped"]
  /\ UNCHANGED <<pc, tok, breakReason, userLinks, initLink, inbox, tickActive,
                 cur, cell, mpc, val, result, sends, procExit,
                 log, enq, cap, late, timeout, cw, strategy, preCancelled,
                 asyncRet, aborted>>

\* the values a handler can return: its own result, the sentinel of the
\* async protocol, and what reply_async gave it (ReplyTaken only with the
\* cell already taken, handler.rs:98-101)
HandlerReturns ==
  {Val(cur), from_err("AsyncReply")}
    \cup (IF cell = "empty" THEN {reply_async(cell)} ELSE {})

\* A mutation of the envelope: every envelope carries the sender of the
\* first message's reply channel.
split_Shared(m) == 1

\* envelope.rs:22-25, 36-40 with multi.rs:64-66  the reply sender that
\* split() yields for the envelope of message m and that the dispatcher has
\* put in the cell: the sender of the channel whose receiver went into the
\* handle of m (message.rs:246-249), named by m
split(m) == m

\* A mutation of the dispatcher: the result of the reply send is unwrapped.
AfterSend_Unwrap(m) == IF ReceiverGone(m) THEN "panicked" ELSE "idle"

\* multi.rs:80-83  `let _ = once.take()...send(value)`: the Result of the
\* send is discarded and the cycle ends normally
AfterSend(m) == "idle"

\* multi.rs:75-85  the handler returned v: nothing is sent for a value with
\* is_async(), else the dispatcher takes the cell (panicking on an empty
\* one) and sends v; then the Call, the cell and the handler's locals are
\* dropped, a sender among them
HReturn(v) ==
  /\ pc = "handling"
  /\ IF is_async(v)
       THEN /\ ch' = [ch EXCEPT
                 ![cur] = IF @ \in {"live", "held"} THEN "dropped" ELSE @]
            /\ UNCHANGED <<val, sends>>
            /\ pc' = "idle" /\ cur' = 0 /\ cell' = "none"
            /\ preCancelled' = is_cancelled(tok)
            /\ asyncRet' = NoValue
            /\ UNCHANGED aborted
            /\ UNCHANGED <<inbox, tickActive, strategy>>
       ELSE IF cell = "full"
              THEN /\ SendOn(split(cur), v)
                   /\ pc' = AfterSend(cur) /\ cur' = 0 /\ cell' = "none"
                   /\ preCancelled' = is_cancelled(tok)
                   /\ asyncRet' = NoValue
                   /\ UNCHANGED aborted
                   /\ UNCHANGED <<inbox, tickActive, strategy>>
              ELSE /\ DropCtx("panicked")
                   /\ UNCHANGED <<val, sends>>
  /\ UNCHANGED <<tok, breakReason, userLinks, initLink, mpc, result, procExit,
                 log, enq, cap, late, timeout, cw>>

\* handler.rs:106-109  the task spawned by reply_async completes
ChildDone(m) ==
  /\ ch[m] = "task"
  /\ SendOn(m, Val(m))
  /\ UNCHANGED <<pc, tok, breakReason, userLinks, initLink, inbox, tickActive,
                 cur, cell, mpc, result, procExit,
                 log, enq, cap, late, timeout, cw, strategy, preCancelled,
                 asyncRet, aborted>>

\* actor.rs:211  terminate(state, ctx, reason) returns and the task ends
TerminateDone ==
  /\ pc = "terminating"
  /\ DropCtx("exited")
  /\ UNCHANGED <<tok, breakReason, userLinks, initLink, mpc, val,
                 result, sends, procExit,
                 log, enq, cap, late, timeout, cw>>

\* actor.rs:142-147, 223-226  the monitor runs the default crash()
Crash ==
  /\ pc = "panicked"
  /\ procExit' = TRUE
  /\ UNCHANGED <<pc, tok, breakReason, userLinks, initLink, inbox, tickActive,
                 cur, cell, mpc, ch, val, result,
                 sends,
                 log, enq, cap, late, timeout, cw, strategy, preCancelled,
                 asyncRet, aborted>>

(***************************************************************************)
(* MessageHandle as a value (message.rs:15-121).                           *)
(***************************************************************************)
\* calls that a caller makes on one handle before it consumes it
MaxCalls == 3

\* message.rs:37-44  MessageHandle::success(receiver)
success(rx) ==
  [receiver |-> rx, sent_successfully |-> TRUE, send_error |-> "None",
   timeout |-> 0]

\* message.rs:47-54  MessageHandle::failed(error)
failed(error) ==
  [receiver |-> "None", sent_successfully |-> FALSE, send_error |-> error,
   timeout |-> 0]

\* A mutation of the builder: it takes the receiver out of the handle.
handle_timeout_Takes(h, d) == [h EXCEPT !.timeout = d, !.receiver = "None"]

\* message.rs:57-60  MessageHandle::timeout(mut self, d) -> Self
handle_timeout(h, d) == [h EXCEPT !.timeout = d]

\* message.rs:63-81  MessageHandle::reply(mut self) with the oneshot channel
\* in state c: "Pending" while the await cannot complete.  tokio's timeout
\* polls the receiver before the timer.
handle_reply(h, c) ==
  IF ~h.sent_successfully THEN "SendFailed"
  ELSE IF h.receiver = "None" THEN "AlreadyConsumed"
  ELSE IF c = "sent" THEN "Reply"
  ELSE IF c = "closed" THEN "RecvFailed"
  ELSE IF h.timeout # 0 THEN "Timeout"
  ELSE "Pending"

\* message.rs:100-121  MessageHandle::try_reply(mut self)
handle_try_reply(h, c) ==
  IF ~h.sent_successfully THEN "SendFailed"
  ELSE IF h.receiver = "None" THEN "AlreadyConsumed"
  ELSE IF c = "sent" THEN "try:Some"
  ELSE IF c = "closed" THEN "try:SendFailed"
  ELSE "try:None"

InitHandle ==
  /\ hnd = [receiver |-> "None", sent_successfully |-> FALSE,
            send_error |-> "None", timeout |-> 0]
  /\ hpc = "none"
  /\ hch = "-"
  /\ hcalls = <<>>
  /\ hres = "none"

\* message.rs:164-168, 246-250  send_to returns: a success handle around
\* the receiver of the envelope's oneshot channel
HandleSuccess ==
  /\ hpc = "none"
  /\ hnd' = success("Some")
  /\ hpc' = "held"
  /\ hch' = "empty"
  /\ UNCHANGED <<hcalls, hres>>

\* message.rs:167, 249  send_to returns: a failed handle (the envelope came
\* back in the send error and is dropped, channel and all)
HandleFailed ==
  /\ hpc = "none"
  /\ hnd' = failed("Some")
  /\ hpc' = "held"
  /\ UNCHANGED <<hch, hcalls, hres>>

\* multi.rs:80-83 and the drop of an envelope: the actor side fires the
\* reply sender or drops it
HandleSender(c) ==
  /\ hch = "empty"
  /\ hch' = c
  /\ UNCHANGED <<hnd, hpc, hcalls, hres>>

\* message.rs:57-60  the caller calls timeout(d)
HandleSetTimeout(d) ==
  /\ hpc = "held" /\ Len(hcalls) < MaxCalls
  /\ hnd' = handle_timeout(hnd, d)
  /\ hcalls' = Append(hcalls, "timeout")
  /\ UNCHANGED <<hpc, hch, hres>>

\* message.rs:90-92  the caller calls was_sent()
HandleWasSent ==
  /\ hpc = "held" /\ Len(hcalls) < MaxCalls
  /\ hcalls' = Append(hcalls, IF hnd.sent_successfully THEN "was_sent:true"
                                                      ELSE "was_sent:false")
  /\ UNCHANGED <<hnd, hpc, hch, hres>>

\* message.rs:95-97  the caller calls send_error()
HandleSendError ==
  /\ hpc = "held" /\ Len(hcalls) < MaxCalls
  /\ hcalls' = Append(hcalls, IF hnd.send_error = "None"
                                THEN "send_error:None" ELSE "send_error:Some")
  /\ UNCHANGED <<hnd, hpc, hch, hres>>

\* message.rs:63-81  the caller awaits reply(): the handle is moved into
\* the call, which returns once the receiver or the timer is ready
HandleReply ==
  /\ hpc = "held"
  /\ handle_reply(hnd, hch) # "Pending"
  /\ hres' = handle_reply(hnd, hch)
  /\ hpc' = "moved"
  /\ UNCHANGED <<hnd, hch, hcalls>>

\* message.rs:100-121  the caller calls try_reply(): the handle is moved
\* into the call
HandleTryReply ==
  /\ hpc = "held"
  /\ hres' = handle_try_reply(hnd, hch)
  /\ hpc' = "moved"
  /\ UNCHANGED <<hnd, hch, hcalls>>

\* message.rs:85-88  the caller calls forget()
HandleForget ==
  /\ hpc = "held"
  /\ hres' = "Forgotten"
  /\ hpc' = "moved"
  /\ UNCHANGED <<hnd, hch, hcalls>>

InitState(n) ==
  /\ pc = "init"
  /\ tok = Running
  /\ breakReason = CancelReason("-", "-")
  /\ userLinks = 1
  /\ initLink = TRUE
  /\ inbox = <<>>
  /\ tickActive = FALSE
  /\ cur = 0
  /\ cell = "none"
  /\ mpc = [m \in Msgs |-> IF m <= n THEN "new" ELSE "absent"]
  /\ ch = [m \in Msgs |-> "none"]
  /\ val = [m \in Msgs |-> NoValue]
  /\ result = [m \in Msgs |-> "none"]
  /\ sends = [m \in Msgs |-> 0]
  /\ procExit = FALSE
  /\ log = <<>>
  /\ enq = <<>>
  /\ late = {}
  /\ timeout = [m \in Msgs |-> 0]
  /\ cw = "none"
  /\ strategy = "-"
  /\ preCancelled = FALSE
  /\ asyncRet = NoValue
  /\ aborted = {}
  /\ relay = [m \in Msgs |-> "-"]
  /\ tasks = [t \in TaskIds |-> "none"]
  /\ InitProxy
  /\ tickInbox = {}
  /\ InitHandle

\* actor.rs:162  the inbox is created with its buffer size
InitActor == InitState(NMsgs) /\ cap = InboxCap

Init == InitTree /\ InitActor

\* a step of the actor part: nothing runs after process::exit, and the
\* free-standing token tree of Part I is not involved
Act(A) ==
  /\ ~procExit /\ A
  /\ UNCHANGED <<treeVars, relayVars, taskVars, proxyVars, tickVars,
               handleVars>>

\* a step of a caller that relays
RelayAct(A) ==
  ~procExit /\ A /\ UNCHANGED <<treeVars, taskVars, proxyVars, tickVars,
               handleVars>>

Next ==
  \/ Act(CloneLink)
  \/ Act(DropLink)
  \/ Act(Upgrade)
  \/ \E c \in CancelValues : Act(LinkCancel(c))
  \/ \E c \in CancelValues : Act(WeakCancel(c))
  \/ \E m \in Msgs : Act(StrongSend(m))
  \/ \E m \in Msgs : Act(WeakSend(m))
  \/ \E m \in Msgs : Act(SendComplete(m))
  \/ \E m \in Msgs : Act(ReplySendFailed(m))
  \/ \E m \in Msgs : Act(ReplyRecv(m))
  \/ \E m \in Msgs : Act(ReplyRecvFailed(m))
  \/ \E m \in Msgs, d \in Durations : Act(ReplyTimeout(m, d))
  \/ \E m \in Msgs : Act(Forget(m))
  \/ Act(InitDropLink)
  \/ Act(InitOk)
  \/ \E c \in CancelValues : Act(InitErr(c))
  \/ Act(TickStart)
  \/ Act(TickDone)
  \/ Act(CycleCancel)
  \/ Act(CycleRecv)
  \/ Act(CycleClosed)
  \/ Act(HTakeReply)
  \/ Act(HReplyAsync)
  \/ Act(HSendHeld)
  \/ Act(HKeep)
  \/ \E m \in Msgs : Act(KeptSend(m))
  \/ \E m \in Msgs : Act(KeptDrop(m))
  \/ \E v \in HandlerReturns : Act(HReturn(v))
  \/ \E m \in Msgs : Act(ChildDone(m))
  \/ Act(TerminateDone)
  \/ Act(Crash)

Spec == Init /\ [][Next]_vars

\* The scheduling the runtime gives: init, a running handler, a spawned
\* reply task and terminate run to completion; the select of a cycle picks
\* its ready branches in random order, so none that is ready again and
\* again is passed over forever; a sender waiting for room in the inbox is
\* served in turn; a caller inside reply() is woken when its channel
\* resolves.
Fairness ==
  /\ WF_vars(Act(InitOk) \/ \E c \in CancelValues : Act(InitErr(c)))
  /\ WF_vars(\E v \in HandlerReturns : Act(HReturn(v)))
  /\ SF_vars(Act(CycleCancel))
  /\ SF_vars(Act(CycleRecv))
  /\ SF_vars(Act(CycleClosed))
  /\ WF_vars(Act(TerminateDone))
  /\ \A m \in Msgs :
       /\ WF_vars(Act(ChildDone(m)))
       /\ SF_vars(Act(SendComplete(m)))
       /\ WF_vars(Act(ReplyRecv(m)) \/ Act(ReplyRecvFailed(m))
                    \/ Act(ReplySendFailed(m)))

FairSpec == Spec /\ Fairness

\* the actor with FewMsgs callers that send
InitFew == InitTree /\ InitState(FewMsgs) /\ cap = InboxCap

SpecFew == InitFew /\ [][Next]_vars

FairSpecFew == SpecFew /\ Fairness

\* the actor with callers that also probe their handles with try_reply and
\* set a timeout on a handle before they use it
NextHandle ==
  \/ Next
  \/ \E m \in Msgs : Act(TryReply(m))
  \/ \E m \in Msgs, d \in Durations : Act(HandleTimeout(m, d))

SpecHandle == Init /\ [][NextHandle]_vars

\* the actor with a caller of Link::cancel_and_wait
NextWait ==
  \/ Next
  \/ \E c \in CancelValues : Act(CancelAndWait(c))
  \/ Act(CancelAndWaitReturn)

\* (FewMsgs callers send)
SpecWait == InitFew /\ [][NextWait]_vars

\* the actor with callers that also relay envelopes they made
NextRelay ==
  \/ Next
  \/ \E m \in Msgs : RelayAct(RelaySend(m))
  \/ \E m \in Msgs : RelayAct(RelayComplete(m))
  \/ \E m \in Msgs : RelayAct(RelayReply(m))

SpecRelay == Init /\ [][NextRelay]_vars

\* a step of a child task the actor spawned
TaskAct(A) ==
  /\ ~procExit /\ A
  /\ UNCHANGED <<treeVars, actorVars, relayVars, proxyVars, tickVars,
               handleVars>>

\* the actor with the child tasks that init, handlers and terminate spawn
NextTasks ==
  \/ Next
  \/ TaskAct(InitSpawn)
  \/ TaskAct(CtxSpawn)
  \/ \E t \in TaskIds : TaskAct(TaskDone(t))

\* the actor with its child tasks (FewMsgs callers send)
SpecTasks == InitFew /\ [][NextTasks]_vars

\* a tick that completes under observation
TickObserved ==
  /\ TickDone
  /\ tickInbox' = {inbox}

\* the actor with an observer of its tick hook
NextTick ==
  \/ Next
  \/ /\ ~procExit /\ TickObserved
     /\ UNCHANGED <<treeVars, relayVars, taskVars, proxyVars, handleVars>>

\* the actor with its ticks under observation (FewMsgs callers send)
SpecTick == InitFew /\ [][NextTick]_vars

\* the actor with an inbox that holds one message more, so that messages
\* wait in it together
InitFifo == InitTree /\ InitState(NMsgs) /\ cap = InboxCap + 1

SpecFifo == InitFifo /\ [][Next]_vars

\* a step of the free-standing token tree: the actor is not involved
TreeAct(A) ==
  A /\ UNCHANGED <<actorVars, relayVars, taskVars, proxyVars, tickVars,
               handleVars>>

NextTree ==
  \/ \E t \in Threads, n \in Nodes : TreeAct(Cancel(t, n))
  \/ \E t \in Threads : TreeAct(CancelStep(t))
  \/ \E t \in Threads, n \in Nodes :
       TreeAct(Child(t, n) /\ UNCHANGED selfRet)
  \/ \E t \in Threads, n \in Nodes : TreeAct(ResetClear(t, n))
  \/ \E t \in Threads : TreeAct(ResetSet(t))

SpecTree == Init /\ [][NextTree]_vars

\* the token tree with the record of the child() calls that returned a
\* clone of the token they were made on (cancel.rs:182)
NextTreeClones ==
  \/ \E t \in Threads, n \in Nodes : TreeAct(Cancel(t, n))
  \/ \E t \in Threads : TreeAct(CancelStep(t))
  \/ \E t \in Threads, n \in Nodes :
       TreeAct(/\ Child(t, n)
               /\ selfRet' = IF ChildResult(n) = "self"
                               THEN selfRet \cup {n} ELSE selfRet)
  \/ \E t \in Threads, n \in Nodes : TreeAct(ResetClear(t, n))
  \/ \E t \in Threads : TreeAct(ResetSet(t))

SpecTreeClones == Init /\ [][NextTreeClones]_vars

(***************************************************************************)
(* PART III -- a Proxy created by Proxy::new (proxy.rs)                    *)
(***************************************************************************)

\* capacity of a backing actor's inbox (the model's scale of the 10 of
\* actor.rs:162); the facade inbox (100, proxy.rs:30) holds every message
\* of the model
BackCap == 1

\* proxy.rs:19-23  ProxyState.token: the initial state carries the token
\* of the external Link, every later state a token of its own
TokCancelled(g) == IF g = 0 THEN xtok ELSE gtok[g]

\* CancelToken::cancel on the token of ProxyState g
CancelTok(g) ==
  /\ xtok' = IF g = 0 THEN TRUE ELSE xtok
  /\ gtok' = IF g = 0 THEN gtok ELSE [gtok EXCEPT ![g] = TRUE]

\* proxy.rs:19-23  ProxyState.link is Some in every state but the initial
HasLink(g) == g # 0

InStateQ(g) == \E i \in 1..Len(stateq) : stateq[i] = g

\* the holders of Arc<ProxyState g>: Proxy.state, the task's local, the
\* state channel, and the guard a shutdown() in progress loaded
Held(g) ==
  \/ proxyAlive /\ pstate = g
  \/ ppc # "done" /\ tstate = g
  \/ InStateQ(g)
  \/ sd \in {"cancelled", "waiting"} /\ sdgen = g

\* link.rs:196-200  the backing actor's token is cancelled by a call or by
\* the drop of its LinkState, which goes with the last ProxyState holder
BackCancelled(g) == btok[g] \/ ~Held(g)

\* link.rs:85-87  Link::alive of the backing link of ProxyState g
BackAlive(g) == bpc[g] # "exited"

\* proxy.rs:45, 58, 65  the loop enters its select: the preconditions of
\* the branches are evaluated once, with the task's current state
EnterSelect ==
  /\ ppc' = "select"
  /\ cancelOn' = ~TokCancelled(tstate)'
  /\ recvOn' = (HasLink(tstate) /\ BackAlive(tstate))'

(*------------------------- user side of the proxy ------------------------*)

\* a caller sends message m on the external Link (the facade inbox is never
\* full in the model)
ExtSend(m) ==
  /\ xlinks > 0
  /\ ppc # "done"
  /\ \A i \in 1..Len(fenq) : fenq[i] # m
  /\ facade' = Append(facade, m)
  /\ fenq' = Append(fenq, m)
  /\ UNCHANGED <<xlinks, xtok, pstate, gtok, stateq, proxyAlive, ppc, tstate,
                 cancelOn, recvOn, pmsg, bpc, btok, binbox, sd, sdgen, xcw,
                 taken, fwd, blog>>

\* link.rs:187-189  Link::cancel on the external Link
ExtCancel ==
  /\ xlinks > 0 /\ ~xtok
  /\ xtok' = TRUE
  /\ UNCHANGED <<xlinks, facade, pstate, gtok, stateq, proxyAlive, ppc,
                 tstate, cancelOn, recvOn, pmsg, bpc, btok, binbox, sd,
                 sdgen, xcw, fenq, taken, fwd, blog>>

\* link.rs:191-192  cancel_and_wait on the external Link: cancel the token,
\* then await tx.closed()
ExtCancelAndWait ==
  /\ xlinks > 0 /\ xcw = "none"
  /\ xtok' = TRUE
  /\ xcw' = "waiting"
  /\ UNCHANGED <<xlinks, facade, pstate, gtok, stateq, proxyAlive, ppc,
                 tstate, cancelOn, recvOn, pmsg, bpc, btok, binbox, sd,
                 sdgen, fenq, taken, fwd, blog>>

\* link.rs:193  tx.closed() is ready: the task has dropped the facade rx
ExtCancelAndWaitReturn ==
  /\ xcw = "waiting"
  /\ ppc = "done"
  /\ xcw' = "returned"
  /\ UNCHANGED <<xlinks, xtok, facade, pstate, gtok, stateq, proxyAlive, ppc,
                 tstate, cancelOn, recvOn, pmsg, bpc, btok, binbox, sd,
                 sdgen, fenq, taken, fwd, blog>>

\* link.rs:196-200  the last clone of the external Link is dropped: its
\* LinkState cancels the token and drops tx
ExtDrop ==
  /\ xlinks > 0 /\ xcw # "waiting"
  /\ xlinks' = 0
  /\ xtok' = TRUE
  /\ UNCHANGED <<facade, pstate, gtok, stateq, proxyAlive, ppc, tstate,
                 cancelOn, recvOn, pmsg, bpc, btok, binbox, sd, sdgen, xcw,
                 fenq, taken, fwd, blog>>

\* proxy.rs:109, 130  state_tx.try_send(..).unwrap(): the new state is
\* queued when the channel has room; with the channel full the unwrap
\* panics in the caller, after the state was stored
try_send(q, g) == IF Len(q) < 1 THEN Append(q, g) ELSE q

\* proxy.rs:99-110  Proxy::init: assert that there is no link, spawn the
\* backing actor, store the new state and send it to the task
ProxyInit ==
  /\ proxyAlive
  /\ ~HasLink(pstate)
  /\ pstate' = 1
  /\ bpc' = [bpc EXCEPT ![1] = "init"]
  /\ stateq' = try_send(stateq, 1)
  /\ UNCHANGED <<xlinks, xtok, facade, gtok, proxyAlive, ppc, tstate,
                 cancelOn, recvOn, pmsg, btok, binbox, sd, sdgen, xcw,
                 fenq, taken, fwd, blog>>

\* proxy.rs:112-114  Proxy::shutdown: load the state and cancel its token
ProxyShutdown ==
  /\ proxyAlive
  /\ sd = "none"
  /\ sd' = "cancelled"
  /\ sdgen' = pstate
  /\ CancelTok(pstate)
  /\ UNCHANGED <<xlinks, facade, pstate, stateq, proxyAlive, ppc, tstate,
                 cancelOn, recvOn, pmsg, bpc, btok, binbox, xcw,
                 fenq, taken, fwd, blog>>

\* proxy.rs:115-117  with a link in the state, shutdown awaits
\* state.stop.notified(); without one it returns
AfterCancel(g) == IF HasLink(g) THEN "waiting" ELSE "returned"

\* proxy.rs:115-117  shutdown goes on after the cancel
ProxyShutdownWait ==
  /\ sd = "cancelled"
  /\ sd' = AfterCancel(sdgen)
  /\ UNCHANGED <<xlinks, xtok, facade, pstate, gtok, stateq, proxyAlive, ppc,
                 tstate, cancelOn, recvOn, pmsg, bpc, btok, binbox, sdgen,
                 xcw, fenq, taken, fwd, blog>>

\* proxy.rs:120-131  Proxy::reset, called when no shutdown is in progress:
\* assert that the token is cancelled, spawn a new backing actor, store the
\* new state and send it to the task
ProxyReset ==
  /\ proxyAlive
  /\ sd \in {"none", "returned"}
  /\ TokCancelled(pstate)
  /\ pstate < MaxGen
  /\ pstate' = pstate + 1
  /\ bpc' = [bpc EXCEPT ![pstate + 1] = "init"]
  /\ stateq' = try_send(stateq, pstate + 1)
  /\ sd' = "none"
  /\ UNCHANGED <<xlinks, xtok, facade, gtok, proxyAlive, ppc, tstate,
                 cancelOn, recvOn, pmsg, btok, binbox, sdgen, xcw,
                 fenq, taken, fwd, blog>>

\* the Proxy value is dropped, and state_tx with it
ProxyDrop ==
  /\ proxyAlive
  /\ sd \in {"none", "returned"}
  /\ proxyAlive' = FALSE
  /\ UNCHANGED <<xlinks, xtok, facade, pstate, gtok, stateq, ppc, tstate,
                 cancelOn, recvOn, pmsg, bpc, btok, binbox, sd, sdgen, xcw,
                 fenq, taken, fwd, blog>>

(*------------------------- the proxy task --------------------------------*)

\* proxy.rs:41-46  the spawned task runs and enters its first select
ProxyTaskStart ==
  /\ ppc = "spawned"
  /\ UNCHANGED <<xlinks, xtok, facade, pstate, gtok, stateq, proxyAlive,
                 tstate, pmsg, bpc, btok, binbox, sd, sdgen, xcw,
                 fenq, taken, fwd, blog>>
  /\ EnterSelect

\* proxy.rs:47-52  state_rx.recv() yields Some(new): state = new
ProxyTaskState ==
  /\ ppc = "select"
  /\ stateq # <<>>
  /\ tstate' = Head(stateq)
  /\ stateq' = Tail(stateq)
  /\ UNCHANGED <<xlinks, xtok, facade, pstate, gtok, proxyAlive, pmsg, bpc,
                 btok, binbox, sd, sdgen, xcw, fenq, taken, fwd, blog>>
  /\ EnterSelect

\* proxy.rs:53-57  state_rx.recv() yields None: cancel the state's token
\* and break; the task ends and drops rx with what is queued in it
ProxyTaskStateClosed ==
  /\ ppc = "select"
  /\ stateq = <<>> /\ ~proxyAlive
  /\ CancelTok(tstate)
  /\ ppc' = "done"
  /\ facade' = <<>>
  /\ UNCHANGED <<xlinks, pstate, stateq, proxyAlive, tstate, cancelOn,
                 recvOn, pmsg, bpc, btok, binbox, sd, sdgen, xcw,
                 fenq, taken, fwd, blog>>

\* proxy.rs:60-65  state.token.cancelled() is ready: with a link, call
\* link.cancel_and_wait (which cancels the backing actor at once); without
\* one, notify_waiters (nobody waits on a state without a link) and loop
ProxyTaskCancelled ==
  /\ ppc = "select"
  /\ cancelOn /\ TokCancelled(tstate)
  /\ IF HasLink(tstate)
       THEN /\ ppc' = "cancel_wait"
            /\ btok' = [btok EXCEPT ![tstate] = TRUE]
            /\ UNCHANGED <<cancelOn, recvOn>>
       ELSE /\ btok' = btok
            /\ UNCHANGED <<xtok, gtok, tstate, bpc>>
            /\ EnterSelect
  /\ UNCHANGED <<xlinks, xtok, facade, pstate, gtok, stateq, proxyAlive,
                 tstate, pmsg, bpc, binbox, sd, sdgen, xcw,
                 fenq, taken, fwd, blog>>

\* proxy.rs:66  state.stop.notify_waiters(): a shutdown() that is inside
\* notified() on this state is woken; no permit is stored for a later one
notify_waiters(s, g) == IF g = sdgen /\ s = "waiting" THEN "returned" ELSE s

\* proxy.rs:63-66  cancel_and_wait returns (the backing actor dropped its
\* receiver): notify_waiters and loop
ProxyTaskWaited ==
  /\ ppc = "cancel_wait"
  /\ ~BackAlive(tstate)
  /\ sd' = notify_waiters(sd, tstate)
  /\ UNCHANGED <<xlinks, xtok, facade, pstate, gtok, stateq, proxyAlive,
                 tstate, pmsg, bpc, btok, binbox, sdgen, xcw,
                 fenq, taken, fwd, blog>>
  /\ EnterSelect

\* proxy.rs:68-72  rx.recv() yields Some(msg): the task goes into
\* link.send_raw(msg)
ProxyTaskRecv ==
  /\ ppc = "select"
  /\ recvOn
  /\ facade # <<>>
  /\ pmsg' = Head(facade)
  /\ facade' = Tail(facade)
  /\ taken' = Append(taken, Head(facade))
  /\ ppc' = "relay"
  /\ UNCHANGED <<xlinks, xtok, pstate, gtok, stateq, proxyAlive, tstate,
                 cancelOn, recvOn, bpc, btok, binbox, sd, sdgen, xcw,
                 fenq, fwd, blog>>

\* proxy.rs:72  `let _ = link.send_raw(msg).await`: the message goes into
\* the backing inbox once it has room; with the backing receiver dropped
\* send_raw returns Err, which is discarded with the message in it
ProxyTaskRelayed ==
  /\ ppc = "relay"
  /\ IF BackAlive(tstate)
       THEN /\ Len(binbox[tstate]) < BackCap
            /\ binbox' = [binbox EXCEPT ![tstate] = Append(@, pmsg)]
            /\ fwd' = Append(fwd, pmsg)
       ELSE UNCHANGED <<binbox, fwd>>
  /\ pmsg' = 0
  /\ UNCHANGED <<xlinks, xtok, facade, pstate, gtok, stateq, proxyAlive,
                 tstate, bpc, btok, sd, sdgen, xcw, fenq, taken, blog>>
  /\ EnterSelect

\* proxy.rs:77-81  rx.recv() yields None (every external Link is dropped
\* and the facade inbox is empty): cancel the state's token and break
ProxyTaskInputClosed ==
  /\ ppc = "select"
  /\ recvOn
  /\ facade = <<>> /\ xlinks = 0
  /\ CancelTok(tstate)
  /\ ppc' = "done"
  /\ UNCHANGED <<xlinks, facade, pstate, stateq, proxyAlive, tstate,
                 cancelOn, recvOn, pmsg, bpc, btok, binbox, sd, sdgen, xcw,
                 fenq, taken, fwd, blog>>

(*------------------------- the backing actors ----------------------------*)

\* actor.rs:182-185  init of the backing actor returned Ok: it enters its
\* loop
BackInitOk(g) ==
  /\ bpc[g] = "init"
  /\ bpc' = [bpc EXCEPT ![g] = "idle"]
  /\ UNCHANGED <<xlinks, xtok, facade, pstate, gtok, stateq, proxyAlive, ppc,
                 tstate, cancelOn, recvOn, pmsg, btok, binbox, sd, sdgen,
                 xcw, fenq, taken, fwd, blog>>

\* actor.rs:186-193  init of the backing actor returned Err: the task ends
\* and drops the receiver with what is queued in it
BackInitErr(g) ==
  /\ bpc[g] = "init"
  /\ bpc' = [bpc EXCEPT ![g] = "exited"]
  /\ btok' = [btok EXCEPT ![g] = TRUE]
  /\ binbox' = [binbox EXCEPT ![g] = <<>>]
  /\ UNCHANGED <<xlinks, xtok, facade, pstate, gtok, stateq, proxyAlive, ppc,
                 tstate, cancelOn, recvOn, pmsg, sd, sdgen, xcw,
                 fenq, taken, fwd, blog>>

\* actor.rs:130-132  a cycle of the backing actor dequeues a message and
\* its handler runs
BackRecv(g) ==
  /\ bpc[g] = "idle"
  /\ binbox[g] # <<>>
  /\ binbox' = [binbox EXCEPT ![g] = Tail(@)]
  /\ blog' = Append(blog, Head(binbox[g]))
  /\ UNCHANGED <<xlinks, xtok, facade, pstate, gtok, stateq, proxyAlive, ppc,
                 tstate, cancelOn, recvOn, pmsg, bpc, btok, sd, sdgen, xcw,
                 fenq, taken, fwd>>

\* actor.rs:124-126, 211  a cycle of the backing actor takes the
\* cancellation branch; terminate runs and the task ends, dropping the
\* receiver with what is queued in it
BackExit(g) ==
  /\ bpc[g] = "idle"
  /\ BackCancelled(g)
  /\ bpc' = [bpc EXCEPT ![g] = "exited"]
  /\ binbox' = [binbox EXCEPT ![g] = <<>>]
  /\ UNCHANGED <<xlinks, xtok, facade, pstate, gtok, stateq, proxyAlive, ppc,
                 tstate, cancelOn, recvOn, pmsg, btok, sd, sdgen, xcw,
                 fenq, taken, fwd, blog>>

\* a step of the proxy, its users or its backing actors
ProxyAct(A) ==
  A /\ UNCHANGED <<treeVars, actorVars, relayVars, taskVars, tickVars,
               handleVars>>

NextProxy ==
  \/ \E m \in Msgs : ProxyAct(ExtSend(m))
  \/ ProxyAct(ExtCancel)
  \/ ProxyAct(ExtCancelAndWait)
  \/ ProxyAct(ExtCancelAndWaitReturn)
  \/ ProxyAct(ExtDrop)
  \/ ProxyAct(ProxyInit)
  \/ ProxyAct(ProxyShutdown)
  \/ ProxyAct(ProxyShutdownWait)
  \/ ProxyAct(ProxyReset)
  \/ ProxyAct(ProxyDrop)
  \/ ProxyAct(ProxyTaskStart)
  \/ ProxyAct(ProxyTaskState)
  \/ ProxyAct(ProxyTaskStateClosed)
  \/ ProxyAct(ProxyTaskCancelled)
  \/ ProxyAct(ProxyTaskWaited)
  \/ ProxyAct(ProxyTaskRecv)
  \/ ProxyAct(ProxyTaskRelayed)
  \/ ProxyAct(ProxyTaskInputClosed)
  \/ \E g \in Gens : ProxyAct(BackInitOk(g))
  \/ \E g \in Gens : ProxyAct(BackInitErr(g))
  \/ \E g \in Gens : ProxyAct(BackRecv(g))
  \/ \E g \in Gens : ProxyAct(BackExit(g))

SpecProxy == Init /\ [][NextProxy]_vars

\* The scheduling the runtime gives the proxy: the proxy task and the
\* backing actors are polled when a branch of theirs is ready, and a caller
\* inside shutdown() or cancel_and_wait() goes on when it can.
FairSpecProxy ==
  /\ SpecProxy
  /\ WF_vars(ProxyAct(ProxyTaskStart))
  /\ WF_vars(ProxyAct(ProxyTaskState))
  /\ WF_vars(ProxyAct(ProxyTaskStateClosed))
  /\ WF_vars(ProxyAct(ProxyTaskCancelled))
  /\ WF_vars(ProxyAct(ProxyTaskWaited))
  /\ WF_vars(ProxyAct(ProxyTaskRecv))
  /\ WF_vars(ProxyAct(ProxyTaskRelayed))
  /\ WF_vars(ProxyAct(ProxyTaskInputClosed))
  /\ WF_vars(ProxyAct(ProxyShutdownWait))
  /\ WF_vars(ProxyAct(ExtCancelAndWaitReturn))
  /\ \A g \in Gens :
       /\ WF_vars(ProxyAct(BackInitOk(g)) \/ ProxyAct(BackInitErr(g)))
       /\ WF_vars(ProxyAct(BackRecv(g)))
       /\ WF_vars(ProxyAct(BackExit(g)))

\* a step on the handle value: nothing else is involved
HandleAct(A) ==
  A /\ UNCHANGED <<treeVars, actorVars, relayVars, taskVars, proxyVars,
                   tickVars>>

NextMessageHandle ==
  \/ HandleAct(HandleSuccess)
  \/ HandleAct(HandleFailed)
  \/ \E c \in {"sent", "closed"} : HandleAct(HandleSender(c))
  \/ \E d \in Durations : HandleAct(HandleSetTimeout(d))
  \/ HandleAct(HandleWasSent)
  \/ HandleAct(HandleSendError)
  \/ HandleAct(HandleReply)
  \/ HandleAct(HandleTryReply)
  \/ HandleAct(HandleForget)

SpecMessageHandle == Init /\ [][NextMessageHandle]_vars

(***************************************************************************)
(* Properties of the cancellation tree.                                    *)
(***************************************************************************)
RECURSIVE IsDesc(_, _)
\* d was obtained from n through child(), transitively
IsDesc(d, n) ==
  /\ parent[d] # NoNode
  /\ (parent[d] = n \/ IsDesc(parent[d], n))

Desc(n) == {d \in Nodes : IsDesc(d, n)}

RECURSIVE NoDirectBetween(_, _)
\* neither d nor a token between n and d was cancelled by a call of its own
NoDirectBetween(n, d) ==
  d = n \/ (~direct[d] /\ NoDirectBetween(n, parent[d]))

\* thread t's top-level cancel call on token n returns with this step
CancelReturns(t, n) ==
  \/ /\ tpc[t] = "idle" /\ Cancel(t, n) /\ tpc'[t] = "idle"
  \/ /\ tpc[t] = "cancel" /\ CancelStep(t) /\ tpc'[t] = "idle"
     /\ tstack[t][Len(tstack[t])].node = n

\* C6: first cancel wins.  A token that is Cancelled keeps its state (the
\* reason value and location of its first cancel) through every step that
\* is not a reset() of that very token: later cancel calls on it, passes
\* that reach it from an ancestor, and cancels of any other token (so the
\* reasons of its cancelled descendants stay as well).
C6_FirstCancelWins ==
  [][\A n \in Nodes :
       (is_cancelled(state[n]) /\ ~(\E t \in Threads : ResetSet(t) /\ targ[t] = n))
         => state'[n] = state[n]]_vars

\* C6 witness: the pass of t2's cancel on the root has completed (the root
\* carries t2's reason and its lock is free), so it reached the root's child,
\* which still carries the reason of its own earlier cancel by t1.
C6_Witness ==
  /\ ~resetUsed
  /\ state[Root] = Cancelled(CallerReason("t2"))
  /\ lock[Root] = "free"
  /\ \E c \in Nodes : /\ parent[c] = Root
                      /\ state[c] = Cancelled(CallerReason("t1"))

AllDescCarry(n, r) == \A d \in Desc(n) : state[d] = Cancelled(r)

\* C7 as stated: when cancel(r) on T returns (reset() not used), every token
\* obtained from T through child() is Cancelled with reason r.
C7_AsStated ==
  [][\A t \in Threads, n \in Nodes :
       (CancelReturns(t, n) /\ ~resetUsed)
         => AllDescCarry(n, CallerReason(t))']_vars

AllDescCancelled(n, r) ==
  \A d \in Desc(n) :
    /\ is_cancelled(state[d])
    /\ (state[n] = Cancelled(r) /\ NoDirectBetween(n, d)) => state[d] = Cancelled(r)

\* C7 amended: on a tree where reset() is not used, when cancel(r) on T
\* returns every token obtained from T through child(), transitively, is
\* Cancelled; it carries r when T became Cancelled(r) and neither the token
\* nor one between T and it was cancelled first by a call of its own (such a
\* token keeps the reason of its first cancel).
C7_AllDescendantsCancelled ==
  [][\A t \in Threads, n \in Nodes :
       (CancelReturns(t, n) /\ ~resetUsed)
         => AllDescCancelled(n, CallerReason(t))']_vars

\* C7 witness: t1's cancel on the root has returned and the root's child and
\* grandchild, never cancelled themselves, both carry t1's reason.
C7_Witness ==
  /\ ~resetUsed
  /\ \A t \in Threads : tpc[t] = "idle"
  /\ state[Root] = Cancelled(CallerReason("t1"))
  /\ \E c, g \in Nodes :
       /\ parent[c] = Root /\ parent[g] = c
       /\ ~direct[c] /\ ~direct[g]
       /\ state[c] = Cancelled(CallerReason("t1"))
       /\ state[g] = Cancelled(CallerReason("t1"))

\* C8: with no reset involved, once a token T is Cancelled and the pass of
\* the cancel that did it is over (T's children lock is released), every
\* token that T.child() returned is Cancelled, with T's reason unless it was
\* cancelled first by a call of its own: child() either enrolled it while T
\* was Running, and the pass cancelled it, or found T Cancelled and returned
\* T itself.  No token returned by child() is left Running.
C8_NoRunningChildOfCancelled ==
  ~resetUsed =>
    \A c \in Nodes :
      (parent[c] # NoNode /\ is_cancelled(state[parent[c]]) /\ lock[parent[c]] = "free")
        => /\ is_cancelled(state[c])
           /\ ~direct[c] => state[c] = state[parent[c]]

\* C8 witness: two tokens returned by Root.child() were enrolled, the cancel
\* of Root is over, and both carry Root's reason.
C8_Witness ==
  /\ ~resetUsed
  /\ is_cancelled(state[Root]) /\ lock[Root] = "free"
  /\ \E c, e \in Nodes :
       /\ c # e /\ parent[c] = Root /\ parent[e] = Root
       /\ ~direct[c] /\ ~direct[e]
       /\ state[c] = state[Root] /\ state[e] = state[Root]

(***************************************************************************)
(* Properties of the actor.                                                *)
(***************************************************************************)

Outcomes == {"Reply", "SendFailed", "RecvFailed", "Timeout"}

\* the caller of message m is inside send_and_reply (or holds its handle)
InFlight(m) == mpc[m] \in {"sending", "weak_sending", "pending", "failed"}

\* what the caller of m can be handed as the value of a reply: what the
\* handler or its reply task produced for m, or the Dead reply of a WeakLink
ReplyValues(m) == {Val(m), from_err("Dead")}

C1_OneOutcome ==
  \A m \in Msgs :
     mpc[m] = "done" /\ result[m] # "Forgotten" =>
        /\ result[m] \in Outcomes
        /\ result[m] = "Reply" => ch[m] = "sent" /\ val[m] \in ReplyValues(m)
        /\ result[m] = "SendFailed" => ~InInbox(m) /\ sends[m] = 0
        /\ result[m] = "RecvFailed" => ch[m] = "dropped"

Dispatch == cur' # 0 /\ cur' # cur

\* C2 as stated: the handler in progress, and the tick in progress, have
\* finished when the next message is dequeued and dispatched.
C2_AsStated ==
  [][Dispatch => (cur = 0 /\ pc = "idle" /\ ~tickActive)]_vars

\* C2: handlers run strictly one at a time: a message is dequeued and
\* dispatched only with no handler in progress, whatever the number of
\* senders, and a tick that is in progress then is dropped with the select
\* (finished or not), so that neither a handler nor a tick runs beside a
\* handler.
C2_HandlersSerial ==
  /\ [][Dispatch => (cur = 0 /\ pc = "idle" /\ pc' = "handling"
                      /\ ~tickActive')]_vars
  /\ []((pc = "handling") <=> (cur # 0))
  /\ [](tickActive => pc = "idle")

\* a handler runs while another sender's message waits in the full inbox
C2_Witness ==
  /\ pc = "handling" /\ cur # 0
  /\ Len(inbox) = InboxCap
  /\ \E m \in Msgs : m # cur /\ InInbox(m) /\ mpc[m] = "pending"
  /\ mpc[cur] = "pending"

\* C3: at most one value is ever sent on the reply channel of a message,
\* however the handler combines a normal return, reply_async and
\* take_reply.
C3_AtMostOneReply == \A m \in Msgs : sends[m] <= 1

\* the handler took the sender and fired it; its normal return then found
\* the cell empty
C3_Witness ==
  /\ pc = "panicked"
  /\ \E m \in Msgs : sends[m] = 1 /\ val[m] = Val(m)

\* C4: releasing the last strong reference to the LinkState cancels the
\* token with the default reason if it is still Running (and leaves a
\* Cancelled token as it is), and the token never carries the reason of that
\* cancel while a strong reference exists.
C4_LastDropCancels ==
  /\ [][(Strong > 0 /\ Strong' = 0) =>
          tok' = IF tok = Running THEN Cancelled(DropReason) ELSE tok]_vars
  /\ [](Strong = 0 => is_cancelled(tok))
  /\ [](reason_of(tok) = DropReason => Strong = 0)

\* the last reference was released with the loop running and a request
\* queued: the token carries the reason of the drop
C4_Witness ==
  /\ Strong = 0
  /\ tok = Cancelled(DropReason)
  /\ pc = "idle"
  /\ \E m \in Msgs : InInbox(m) /\ mpc[m] = "pending"

\* C5 as a liveness property: once the last Link to an initialized actor is
\* gone, the loop breaks and terminate runs (unless the handler in
\* progress panics), the task ends and the receiver is dropped; and from
\* that drop on no strong reference ever exists again, so every upgrade
\* returns None.
C5_LastDropTerminates ==
  /\ (Strong = 0 /\ pc \in {"idle", "handling"})
        ~> (pc \in {"terminating", "panicked"})
  /\ (pc = "terminating") ~> RxClosed
  /\ [][Strong = 0 => upgrade' = "None"]_vars

\* the loop ended after the last Link was dropped with the token Running
C5_Witness ==
  /\ pc = "exited"
  /\ Strong = 0
  /\ tok = Cancelled(DropReason)
  /\ breakReason \in {DropReason, DefaultReason}

LoopOver == pc \in {"terminating", "exited", "panicked"}

\* the reply sender of m is fired with this step
SendStep(m) == sends'[m] = sends[m] + 1

\* C11: forget() never waits: it is enabled whenever the handle exists,
\* whatever the state of the reply, and it changes nothing of the actor.  The
\* forgotten message stays queued, is dispatched like any other and its
\* handler changes the actor state; a reply sent for it finds the receiver
\* gone, and that send neither panics nor cancels the actor, which goes on
\* to its next cycle with its queue untouched.  A forgotten message that is
\* queued is handled unless the loop ends first.
C11_ForgetStillHandled ==
  /\ [](\A m \in Msgs :
         (mpc[m] \in {"pending", "failed"} /\ ~procExit) => ENABLED Act(Forget(m)))
  /\ [][\A m \in Msgs :
          (result'[m] = "Forgotten" /\ result[m] # "Forgotten") =>
             UNCHANGED <<pc, tok, inbox, cur, log, ch, strategy>>]_vars
  /\ [][\A m \in Msgs :
          (result[m] = "Forgotten" /\ cur' = m /\ cur # m) =>
             log' = Append(log, m)]_vars
  /\ [][\A m \in Msgs :
          (result[m] = "Forgotten" /\ SendStep(m)) =>
             /\ ch'[m] = "refused" /\ val'[m] = val[m]
             /\ tok' = tok /\ inbox' = inbox /\ log' = log
             /\ pc' \in {pc, "idle"}]_vars
  /\ \A m \in Msgs :
       (result[m] = "Forgotten" /\ InInbox(m)) ~> (Seen(m) > 0 \/ LoopOver)

\* a forgotten message was handled, the reply sent for it was refused, and
\* the actor then handled and answered the next message
C11_Witness ==
  \E m, k \in Msgs :
     /\ result[m] = "Forgotten" /\ ch[m] = "refused"
     /\ Seen(m) = 1 /\ Seen(k) = 2
     /\ result[k] = "Reply" /\ val[k] = Val(k)
     /\ pc = "idle"

IsPrefix(a, b) ==
  /\ Len(a) <= Len(b)
  /\ \A i \in 1..Len(a) : a[i] = b[i]

\* the position of m in q, 0 when it is not there
PosIn(q, m) ==
  IF \E i \in 1..Len(q) : q[i] = m
    THEN CHOOSE i \in 1..Len(q) : q[i] = m
    ELSE 0

\* C12: messages are handled in the order their sends completed: the
\* sequence of handled messages is at every moment a prefix of the sequence
\* of completed sends, in which every message occurs once, and while the
\* receiver exists the rest of that sequence is the queue.  So the value a
\* counter handler computes for a message (each message an Increment(1),
\* initial value 0) is the number of sends completed up to its own: after N
\* completed sends the next message sent is answered N + 1.
C12_HandledInSendOrder ==
  /\ [](IsPrefix(log, enq))
  /\ [](~RxClosed => enq = log \o inbox)
  /\ [](\A i, j \in 1..Len(enq) : enq[i] = enq[j] => i = j)
  /\ [][enq' = enq \/ \E m \in Msgs : enq' = Append(enq, m)]_vars
  /\ [](\A k \in Msgs :
          val[k].k = "val" => (val[k].n >= 1 /\ val[k].n = PosIn(enq, k)))

\* two messages waited in the inbox together; the first was forgotten by its
\* sender, the second was answered with the count 2
C12_Witness ==
  \E m, k \in Msgs :
     /\ cap > 1
     /\ enq = <<m, k>> /\ log = enq
     /\ result[m] = "Forgotten"
     /\ result[k] = "Reply" /\ val[k] = [k |-> "val", m |-> k, n |-> 2]

\* the reply of m is out of the scenario of C13: the actor was cancelled
\* (by a call, by the drop of its last Link or by a failed init) or
\* panicked, the caller gave up (timeout, forget), or the handler did not
\* answer the way a counter handler does (it dropped or kept the sender)
Abnormal(m) ==
  \/ is_cancelled(tok) \/ pc = "panicked" \/ procExit
  \/ result[m] \in {"Timeout", "Forgotten"}
  \/ ch[m] \in {"kept", "dropped"}

\* the messages the handlers have answered with their value
Answered == {m \in Msgs : ch[m] = "sent" /\ val[m].k = "val"}

\* C13: with NMsgs concurrent requests Increment(1) to a counter starting
\* at 0 and an inbox smaller than NMsgs, every message is handled at most
\* once, the values the handlers answer are pairwise distinct and lie in
\* 1..NMsgs, the count is the number of messages handled, and once all
\* requests were answered it is NMsgs; and every request is answered, as
\* long as the actor is neither cancelled nor panics, the caller awaits
\* reply() without timeout and the handler answers.
C13_EachHandledOnce ==
  /\ [](\A i, j \in 1..Len(log) : log[i] = log[j] => i = j)
  /\ [](\A m \in Answered : val[m].n \in 1..NMsgs /\ val[m].n <= Len(log))
  /\ [](\A m, k \in Answered : val[m].n = val[k].n => m = k)
  /\ [](Answered = Msgs => Len(log) = NMsgs)
  /\ \A m \in Msgs :
       InFlight(m) ~> (result[m] = "Reply" \/ Abnormal(m))

\* all requests were answered by the running actor, with the values
\* 1..NMsgs, through an inbox smaller than their number
C13_Witness ==
  /\ cap < NMsgs
  /\ pc = "idle" /\ tok = Running
  /\ \A m \in Msgs : result[m] = "Reply" /\ m \in Answered
  /\ {val[m].n : m \in Msgs} = 1..NMsgs

\* C14: reply() with timeout d that expires yields Timeout{timeout: d} and
\* touches nothing of the actor: the token (Running or not), the loop, the
\* queue, the dispatch in progress and the reply sender stay as they were.
\* The handler of the message still runs and changes the actor state; a
\* reply sent afterwards is refused by the closed channel without panic or
\* cancel, and the loop goes on.  A timed-out message that is queued or in
\* its handler is handled to the end unless the loop ends first.
C14_TimeoutLocal ==
  /\ [][\A m \in Msgs, d \in Durations :
          Act(ReplyTimeout(m, d)) =>
             /\ result'[m] = "Timeout" /\ timeout'[m] = d
             /\ UNCHANGED <<pc, tok, inbox, cur, cell, log, ch, strategy>>]_vars
  /\ [](\A m \in Msgs : result[m] = "Timeout" <=> timeout[m] # 0)
  /\ [][\A m \in Msgs :
          (result[m] = "Timeout" /\ cur' = m /\ cur # m) =>
             log' = Append(log, m)]_vars
  /\ [][\A m \in Msgs :
          (result[m] = "Timeout" /\ SendStep(m)) =>
             /\ ch'[m] = "refused" /\ val'[m] = val[m]
             /\ tok' = tok /\ inbox' = inbox /\ log' = log
             /\ pc' \in {pc, "idle"}]_vars
  /\ \A m \in Msgs :
       (result[m] = "Timeout" /\ (InInbox(m) \/ cur = m))
          ~> ((Seen(m) > 0 /\ cur # m) \/ LoopOver)

\* a request timed out with the second duration while it was queued or in
\* its handler; the handler ran, its reply was refused, the token is still
\* Running and the actor answered the next request
C14_Witness ==
  \E m, k \in Msgs :
     /\ result[m] = "Timeout" /\ timeout[m] = 2
     /\ ch[m] = "refused" /\ Seen(m) = 1
     /\ tok = Running /\ pc = "idle"
     /\ Seen(k) = 2 /\ result[k] = "Reply" /\ val[k] = Val(k)

\* the inbox send of message m returns with this step
SendReturns(m) == mpc[m] \in {"sending", "weak_sending"} /\ mpc'[m] # mpc[m]

C16_ExitDropsQueue ==
  /\ [][(RxClosed' /\ ~RxClosed) =>
          /\ inbox' = <<>> /\ log' = log
          /\ \A m \in Msgs :
               InInbox(m) =>
                 (ch'[m] = "dropped" /\ sends'[m] = 0 /\ PosIn(log', m) = 0)]_vars
  /\ [](RxClosed => (inbox = <<>> /\ cur = 0))
  /\ [][RxClosed => (RxClosed' /\ log' = log /\ enq' = enq)]_vars
  /\ [][\A m \in Msgs :
          (SendReturns(m) /\ RxClosed) => mpc'[m] = "failed"]_vars
  /\ [][\A m \in Msgs :
          (mpc[m] = "pending" /\ ch[m] = "dropped" /\ mpc'[m] = "done") =>
             result'[m] \in {"RecvFailed", "Forgotten"}]_vars
  /\ \A m \in Msgs :
       (mpc[m] = "pending" /\ InInbox(m) /\ pc = "terminating")
          ~> (result[m] \in {"RecvFailed", "Timeout", "Forgotten"} \/ procExit)

\* the loop broke and the task ended with a request queued: the request was
\* never handled and its caller got RecvFailed; a later send got SendFailed
C16_Witness ==
  /\ pc = "exited" /\ breakReason # CancelReason("-", "-")
  /\ \E m, k \in Msgs :
       /\ PosIn(enq, m) > 0 /\ Seen(m) = 0
       /\ result[m] = "RecvFailed"
       /\ PosIn(enq, k) = 0 /\ result[k] = "SendFailed"

\* C17: cancel_and_wait(reason) first cancels the token (with its reason if
\* the token was Running) and returns only once the actor task has
\* dropped the receiver: when it returns and ever after, alive() is false,
\* no handler is running or starts, nothing is queued and the actor state
\* no longer changes.
C17_CancelAndWaitBarrier ==
  /\ [][\A c \in CancelValues :
          Act(CancelAndWait(c)) =>
             tok' = IF tok = Running THEN Cancelled(CancelAndWaitReason(c))
                                     ELSE tok]_vars
  /\ [](cw \in {"waiting", "returned"} => is_cancelled(tok))
  /\ [][(cw' = "returned" /\ cw # "returned") =>
          (cw = "waiting" /\ RxClosed /\ ~alive /\ cur = 0)]_vars
  /\ [](cw = "returned" =>
          (RxClosed /\ ~alive /\ cur = 0 /\ pc # "handling" /\ inbox = <<>>))
  /\ [][cw = "returned" => (cur' = 0 /\ log' = log /\ pc' = pc)]_vars

\* cancel_and_wait("stop") was called on a running actor that had handled a
\* message; it has returned and the task has ended
C17_Witness ==
  /\ cw = "returned"
  /\ tok = Cancelled(CancelAndWaitReason("stop"))
  /\ breakReason = CancelAndWaitReason("stop")
  /\ pc = "exited" /\ Len(log) >= 1

\* C18 (as stated): try_reply on the handle of a message that was sent, and
\* whose reply sender was dropped without a send, yields RecvFailed;
\* SendFailed is what it yields only when the send never occurred.
C18_AsStated ==
  /\ [][\A m \in Msgs :
          (Act(TryReply(m)) /\ was_sent(m) /\ ch[m] = "dropped") =>
             result'[m] = "try:RecvFailed"]_vars
  /\ [](\A m \in Msgs :
          result[m] = "try:SendFailed" => PosIn(enq, m) = 0)

\* C19 (as stated): try_reply is enabled whenever the handle exists, and
\* when no reply has been produced it returns Ok(None) with the receiver
\* retained: the receiver is not gone after the call, and a reply the
\* handler sends later is not refused.
C19_AsStated ==
  /\ [](\A m \in Msgs :
         (mpc[m] \in {"pending", "failed"} /\ ~procExit) => ENABLED Act(TryReply(m)))
  /\ [][\A m \in Msgs :
          (result'[m] = "try:None" /\ result[m] # "try:None") =>
             ~ReceiverGone(m)']_vars
  /\ [](\A m \in Msgs : result[m] = "try:None" => ch[m] # "refused")

\* C20 (as stated): with ProcessAll no message is left queued when the loop
\* breaks and terminate is invoked (actor.rs:204-211: terminate is called as
\* the loop breaks), so every message enqueued before the break was handled;
\* with Exit the messages left are dropped unhandled when the task ends.
C20_AsStated ==
  /\ [][(pc' = "terminating" /\ pc # "terminating" /\ strategy' = "ProcessAll")
          => inbox' = <<>>]_vars
  /\ [][(pc = "terminating" /\ pc' = "exited" /\ strategy = "Exit") =>
          \A m \in Msgs :
             InInbox(m) => (ch'[m] = "dropped" /\ PosIn(log', m) = 0)]_vars

(***************************************************************************)
(* Properties of the actor's life cycle.                                   *)
(***************************************************************************)

\* the task ended in the init-error branch: no loop ever broke
InitFailed == pc = "exited" /\ breakReason = CancelReason("-", "-")

\* C21: when init returns Err(c) the token ends up Cancelled -- with reason
\* c if it was Running, with the reason it had if it was Cancelled already
\* (by a cancel call, or by the drop of Init.link when that was the last
\* Link) -- and the task exits in the same step: no handler, no tick and no
\* terminate has run or runs later.  The receiver is dropped, so alive() is
\* false, the messages queued during init lose their reply sender unfired
\* and reply() on them yields RecvFailed, and every send that returns later
\* yields a Failed handle, on which reply() yields SendFailed.
C21_InitErrExits ==
  /\ [][\A c \in CancelValues :
          Act(InitErr(c)) =>
             /\ tok' = (IF is_cancelled(tok) THEN tok
                        ELSE IF Strong = 1 /\ initLink THEN Cancelled(DropReason)
                        ELSE Cancelled(InitErrReason(c)))
             /\ InitFailed' /\ ~alive'
             /\ inbox' = <<>>
             /\ \A m \in Msgs :
                  InInbox(m) => (ch'[m] = "dropped" /\ sends'[m] = 0)]_vars
  /\ [](pc = "init" => (log = <<>> /\ cur = 0 /\ ~tickActive))
  /\ [](pc = "terminating" => breakReason # CancelReason("-", "-"))
  /\ [](InitFailed =>
          (log = <<>> /\ cur = 0 /\ ~tickActive /\ inbox = <<>>
             /\ ~alive /\ is_cancelled(tok)))
  /\ [][InitFailed => InitFailed']_vars
  /\ [][\A m \in Msgs :
          (InitFailed /\ SendReturns(m)) =>
             (mpc'[m] = "failed" /\ send_error(m)' = "Some")]_vars
  /\ [][\A m \in Msgs :
          (InitFailed /\ mpc'[m] = "done" /\ mpc[m] # "done"
             /\ (PosIn(enq, m) > 0 \/ mpc[m] = "failed")) =>
             result'[m] \in {IF PosIn(enq, m) > 0 THEN "RecvFailed" ELSE "SendFailed",
                             "Forgotten"}]_vars

\* init failed with "stop" while a Link was held and a message was queued:
\* the queued message resolved to RecvFailed, a later send to SendFailed
C21_Witness ==
  /\ InitFailed
  /\ tok = Cancelled(InitErrReason("stop"))
  /\ \E m, k \in Msgs :
       /\ PosIn(enq, m) > 0 /\ result[m] = "RecvFailed"
       /\ PosIn(enq, k) = 0 /\ result[k] = "SendFailed"

\* C22: reply_async(fut) on a full cell moves the reply sender into a task
\* of its own.  When the handler then returns the sentinel the dispatcher
\* sends nothing and the cycle ends with the sender still in that task; the
\* only send on the channel is the task's, it carries fut's output (never
\* the sentinel) and does not involve the actor loop, which meanwhile can
\* dequeue the next message; the task gives up its sender only by that send
\* or when the actor task ends.
C22_ReplyAsyncDetached ==
  /\ [][(Act(HReplyAsync) /\ cell = "full") =>
          (ch'[cur] = "task" /\ cell' = "empty" /\ sends' = sends)]_vars
  /\ [][(Act(HReturn(from_err("AsyncReply"))) /\ ch[cur] = "task") =>
          /\ sends' = sends /\ val' = val
          /\ ch'[cur] = "task"
          /\ pc' = "idle" /\ cur' = 0]_vars
  /\ [][\A m \in Msgs :
          (ch[m] = "task" /\ SendStep(m)) =>
             /\ IF ReceiverGone(m) THEN ch'[m] = "refused"
                                   ELSE ch'[m] = "sent" /\ val'[m] = Val(m)
             /\ UNCHANGED <<pc, cur, inbox, log, tok>>]_vars
  /\ [][\A m \in Msgs :
          (ch[m] = "task" /\ ch'[m] # "task") =>
             (SendStep(m) \/ (RxClosed' /\ ch'[m] = "dropped"))]_vars
  /\ [](\A m \in Msgs : ~is_async(val[m]))
  /\ [](\A m \in Msgs :
          (ch[m] = "task" /\ pc = "idle" /\ inbox # <<>> /\ ~procExit) =>
             ENABLED Act(CycleRecv))

\* the handler of the first message returned the sentinel after reply_async;
\* nothing was sent for it and its caller still waits, while the actor is
\* already in the handler of the next message
C22_Witness ==
  \E m, k \in Msgs :
     /\ ch[m] = "task" /\ sends[m] = 0 /\ mpc[m] = "pending"
     /\ Seen(m) = 1
     /\ pc = "handling" /\ cur = k /\ Seen(k) = 2

\* C23: the handle a relay returns is a success handle exactly when the
\* envelope was enqueued (a Failed one when the receiver was gone, with
\* nothing enqueued); reply() on it is possible at once, whatever the actor
\* is doing, yields Ok(()) and touches nothing of the actor or of the
\* original reply channel.  The relayed envelope is queued and dispatched
\* like a direct one, and what its handler sends goes to the receiver made
\* with the envelope: the caller that awaits that receiver gets the
\* handler's value.
C23_RelayResolvesAtEnqueue ==
  /\ [][\A m \in Msgs :
          (relay[m] = "sending" /\ relay'[m] # "sending") =>
             IF RxClosed
               THEN relay'[m] = "failed" /\ inbox' = inbox /\ enq' = enq
               ELSE relay'[m] = "ok" /\ inbox' = Append(inbox, m)]_vars
  /\ [](\A m \in Msgs :
          (relay[m] = "ok" /\ ~procExit) => ENABLED RelayAct(RelayReply(m)))
  /\ [][\A m \in Msgs :
          (relay[m] = "ok" /\ relay'[m] # "ok") =>
             (relay'[m] = "got" /\ UNCHANGED actorVars)]_vars
  /\ [](\A m \in Msgs :
          /\ relay[m] \in {"ok", "got"} => PosIn(enq, m) > 0
          /\ relay[m] \in {"failed", "err"} =>
                (PosIn(enq, m) = 0 /\ ch[m] = "dropped" /\ sends[m] = 0))
  /\ [][\A m \in Msgs :
          (relay[m] # "-" /\ cur' = m /\ cur # m) =>
             (inbox # <<>> /\ m = Head(inbox) /\ log' = Append(log, m)
                /\ cell' = "full")]_vars
  /\ [][\A m \in Msgs :
          (relay[m] # "-" /\ SendStep(m) /\ ~ReceiverGone(m)) =>
             (ch'[m] = "sent" /\ Seen(m) > 0
                /\ val'[m] \in {Val(m), from_err("ReplyTaken")})]_vars
  /\ [][\A m \in Msgs :
          (relay[m] # "-" /\ result'[m] = "Reply" /\ result[m] # "Reply") =>
             (ch[m] = "sent" /\ val'[m] = val[m])]_vars

\* two envelopes were relayed and both relay handles have resolved to Ok(()):
\* the first was handled and its reply reached the receiver made with it,
\* the second is still queued
C23_Witness ==
  \E m, k \in Msgs :
     /\ relay[m] = "got" /\ relay[k] = "got"
     /\ result[m] = "Reply" /\ val[m] = Val(m) /\ Seen(m) = 1
     /\ InInbox(k) /\ Seen(k) = 0

\* the send of m is inside sender.send
InSend(m) == mpc[m] \in {"sending", "weak_sending"}

\* C24: a send does not return while the inbox is full and the receiver
\* exists, and it can return as soon as the receiver is dropped; a send that
\* returns after the receiver was dropped enqueues nothing and gives a
\* Failed handle (was_sent() false, send_error() Some), on which reply()
\* yields SendFailed.  A producer suspended on the full inbox of an actor
\* whose loop has broken is released with that error, and so is every
\* producer still inside send when the receiver is dropped (unless the
\* default crash() ends the process first, which happens only after a
\* panic, never once terminate has begun).
C24_BlockedSendReleased ==
  /\ [](\A m \in Msgs :
          (InSend(m) /\ ~RxClosed /\ Len(inbox) >= cap) =>
             ~ENABLED Act(SendComplete(m)))
  /\ [](\A m \in Msgs :
          (InSend(m) /\ RxClosed /\ ~procExit) => ENABLED Act(SendComplete(m)))
  /\ [][\A m \in Msgs :
          (SendReturns(m) /\ RxClosed) =>
             /\ mpc'[m] = "failed" /\ ~was_sent(m)' /\ send_error(m)' = "Some"
             /\ inbox' = inbox /\ enq' = enq]_vars
  /\ [][\A m \in Msgs :
          (mpc[m] = "failed" /\ result'[m] # result[m]) =>
             result'[m] \in {"SendFailed", "Forgotten"}]_vars
  /\ [](procExit => pc = "panicked")
  /\ [][(pc = "terminating" \/ pc = "exited") =>
          (pc' = "terminating" \/ pc' = "exited")]_vars
  /\ \A m \in Msgs :
       (InSend(m) /\ (RxClosed \/ (pc = "terminating" /\ Len(inbox) >= cap)))
          ~> (mpc[m] = "failed" \/ procExit)

\* the inbox was filled and nothing was ever dequeued; a send issued while
\* the actor was running and not cancelled was still inside send when the
\* loop broke and the task ended, and reply() on its handle gave SendFailed
C24_Witness ==
  /\ pc = "exited" /\ breakReason # CancelReason("-", "-")
  /\ log = <<>> /\ Len(enq) = cap
  /\ \E m \in Msgs :
       /\ result[m] = "SendFailed" /\ m \notin late
       /\ PosIn(enq, m) = 0

\* the handle of m is consumed with this step by one of the consuming
\* operations
ConsumedBy(m) ==
  \/ Act(ReplyRecv(m)) \/ Act(ReplyRecvFailed(m)) \/ Act(ReplySendFailed(m))
  \/ \E d \in Durations : Act(ReplyTimeout(m, d))
  \/ Act(TryReply(m))
  \/ Act(Forget(m))

C27_AsStated == [][preCancelled => ~Dispatch]_vars

\* What the loop does guarantee around C27: a cycle that takes the
\* cancellation branch breaks the loop with the token's reason and
\* dispatches nothing, whatever is queued; once a cycle has returned Break
\* nothing is dequeued or handled again; and from every state with the
\* token Cancelled and the loop running the loop does break (or the
\* handler in progress panics).
CancelBreaksLoop ==
  /\ [][Act(CycleCancel) =>
          /\ is_cancelled(tok) /\ breakReason' = reason_of(tok)
          /\ pc' = "terminating"
          /\ cur' = 0 /\ log' = log /\ inbox' = inbox /\ ch' = ch]_vars
  /\ [][LoopOver => (LoopOver' /\ log' = log /\ cur' = 0)]_vars
  /\ [][Dispatch => (pc = "idle" /\ inbox # <<>> /\ cur' = Head(inbox))]_vars
  /\ [](preCancelled => (pc = "idle" /\ is_cancelled(tok)))
  /\ (is_cancelled(tok) /\ pc \in {"idle", "handling"}) ~> LoopOver

\* Link::cancel("stop") was called while a handler ran; a later cycle broke
\* with that reason while a message was queued, and the message stays
\* undelivered
C27_Witness ==
  /\ pc = "terminating"
  /\ breakReason = LinkCancelReason("stop")
  /\ Len(log) >= 1
  /\ \E m \in Msgs : InInbox(m) /\ Seen(m) = 0 /\ mpc[m] = "pending"

\* the loop has broken and terminate(state, ctx, reason) is invoked
TerminateInvoked == pc # "terminating" /\ pc' = "terminating"

\* C28: terminate is invoked only by a cycle that breaks, with no handler
\* in progress, and at most once: from terminate the task can only end,
\* and it does; no message is dequeued and no tick polled after terminate
\* was invoked.  Its reason is the reason stored in the token when the
\* cycle broke on cancellation (the first one: a stored reason is never
\* replaced) and the default reason when recv() yielded None.  A task that
\* ends has failed init or has been through terminate.
C28_TerminateOnce ==
  /\ [][TerminateInvoked =>
          /\ pc = "idle" /\ cur = 0 /\ cell = "none"
          /\ Act(CycleCancel) \/ Act(CycleClosed)]_vars
  /\ [][Act(CycleCancel) =>
          /\ TerminateInvoked
          /\ is_cancelled(tok)
          /\ breakReason' = CancelReason(tok.value, tok.location)]_vars
  /\ [][Act(CycleClosed) =>
          /\ TerminateInvoked
          /\ Strong = 0 /\ inbox = <<>>
          /\ breakReason' = DefaultReason]_vars
  /\ [][is_cancelled(tok) => tok' = tok]_vars
  /\ [][pc = "terminating" =>
          /\ pc' \in {"terminating", "exited"}
          /\ breakReason' = breakReason
          /\ log' = log /\ cur' = 0 /\ ~tickActive']_vars
  /\ [][pc = "exited" =>
          (pc' = "exited" /\ log' = log /\ cur' = 0 /\ ~tickActive')]_vars
  /\ [][(pc # "exited" /\ pc' = "exited") =>
          \/ pc = "terminating"
          \/ pc = "init" /\ \E c \in CancelValues : Act(InitErr(c))]_vars
  /\ (pc = "terminating") ~> (pc = "exited")

\* a handler ran, Link::cancel("stop") broke the loop, and terminate got
\* that reason and has returned
C28_Witness ==
  /\ pc = "exited"
  /\ Len(log) >= 1
  /\ is_cancelled(tok)
  /\ breakReason = LinkCancelReason("stop")
  /\ breakReason = CancelReason(tok.value, tok.location)

\* C29: reply_async on a reply cell that was already taken returns
\* from_err(ReplyTaken), spawns no task and sends nothing: the cell, the
\* reply channels and what they carry stay as they are.  (On the full cell
\* it returns the sentinel and the sender goes to the spawned task.)
C29_ReplyAsyncOnTakenCell ==
  /\ [][(Act(HReplyAsync) /\ cell # "full") =>
          /\ asyncRet' = from_err("ReplyTaken")
          /\ UNCHANGED <<cell, ch, val, sends, inbox, pc, cur>>]_vars
  /\ [][(Act(HReplyAsync) /\ cell = "full") =>
          /\ asyncRet' = from_err("AsyncReply")
          /\ cell' = "empty" /\ ch'[cur] = "task"]_vars
  /\ [][\A m \in Msgs : (ch[m] # "task" /\ ch'[m] = "task") =>
          (Act(HReplyAsync) /\ cell = "full" /\ m = cur)]_vars
  /\ [](asyncRet = from_err("ReplyTaken") =>
          (pc = "handling" /\ cell = "empty"))
  /\ [](pc # "handling" => asyncRet = NoValue)

\* the handler took the sender with take_reply and then called
\* reply_async: it got ReplyTaken and the sender is still the handler's
C29_Witness ==
  /\ pc = "handling"
  /\ asyncRet = from_err("ReplyTaken")
  /\ ch[cur] = "held"
  /\ sends[cur] = 0

\* a child task that was spawned and has not completed
Unfinished(t) == tasks[t] = "running"

\* the actor task has ended: init failed, terminate returned, or a panic
\* unwound it
ActorEnded == pc \in {"exited", "panicked"}

\* C30: once the actor task has ended no task of its JoinSet makes a step:
\* the tasks spawned by Init::spawn and ActorContext::spawn that were
\* unfinished stay so, and the reply_async tasks unfinished at that moment
\* are dropped with their reply senders, which never send; reply() of a
\* caller waiting on such a channel can complete and yields RecvFailed.
C30_ChildrenAborted ==
  /\ [][ActorEnded => (ActorEnded' /\ tasks' = tasks)]_vars
  /\ [][\A m \in Msgs :
          (ch[m] = "task" /\ ~ActorEnded /\ ActorEnded') =>
             (ch'[m] = "dropped" /\ m \in aborted' /\ sends'[m] = sends[m])]_vars
  /\ [](ActorEnded => \A m \in Msgs : ch[m] # "task")
  /\ [](\A m \in aborted :
          /\ ActorEnded
          /\ ch[m] = "dropped" /\ sends[m] = 0 /\ val[m] = NoValue
          /\ Seen(m) > 0
          /\ result[m] \in {"none", "RecvFailed", "Timeout", "Forgotten"})
  /\ [][\A m \in aborted :
          (mpc[m] = "pending" /\ result'[m] # result[m]) =>
             result'[m] \in {"RecvFailed", "Forgotten"}]_vars
  /\ [](\A m \in aborted :
          (mpc[m] = "pending" /\ ~procExit) => ENABLED Act(ReplyRecvFailed(m)))

\* terminate has returned while the task spawned by init, the task spawned
\* through ctx and a reply_async task were unfinished: the two tasks are
\* still unfinished, and the caller of the reply_async message got
\* RecvFailed
C30_Witness ==
  /\ pc = "exited" /\ breakReason # CancelReason("-", "-")
  /\ Unfinished("init") /\ Unfinished("ctx")
  /\ \E m \in aborted : result[m] = "RecvFailed"

\* C31: the inbox never holds more messages than the buffer size it was
\* created with (InboxCap, the model's scale of the 10 of actor.rs:162).  A
\* send that finds the inbox full cannot return while the receiver exists;
\* a send that returns with the message accepted found room and appended
\* it, and one that returns while the inbox is full returns Failed, the
\* receiver being dropped.  The inbox shrinks only when the loop dequeues
\* its head or the actor task drops the receiver.
C31_InboxBounded ==
  /\ [](cap = InboxCap /\ Len(inbox) <= cap)
  /\ [](\A m \in Msgs :
          (InSend(m) /\ ~RxClosed /\ Len(inbox) = cap) =>
             ~ENABLED Act(SendComplete(m)))
  /\ [][\A m \in Msgs :
          (SendReturns(m) /\ mpc'[m] = "pending") =>
             (Len(inbox) < cap /\ inbox' = Append(inbox, m))]_vars
  /\ [][\A m \in Msgs :
          (SendReturns(m) /\ Len(inbox) = cap) =>
             (RxClosed /\ mpc'[m] = "failed" /\ inbox' = inbox)]_vars
  /\ [][Len(inbox') < Len(inbox) =>
          \/ Act(CycleRecv) /\ inbox' = Tail(inbox)
          \/ RxClosed' /\ ~RxClosed /\ inbox' = <<>>]_vars

\* the inbox is full while the receiver exists, and a further send is
\* suspended on it
C31_Witness ==
  /\ Len(inbox) = cap
  /\ ~RxClosed
  /\ \E m \in Msgs : InSend(m) /\ ~InInbox(m)

(***************************************************************************)
(* Properties of the proxy.                                                *)
(***************************************************************************)

\* the messages of sequence q, in q's order, that are not in set S
Without(q, S) == SelectSeq(q, LAMBDA x : x \notin S)

\* the messages of sequence q
Range(q) == {q[i] : i \in 1..Len(q)}

\* the messages the task took from the facade inbox and discarded with the
\* error of send_raw
Discarded == (Range(taken) \ Range(fwd)) \ {pmsg}

\* C32 as stated: the messages are forwarded to a backing inbox in the
\* order the facade accepted them, they leave the facade inbox only while
\* the task holds a link that was alive when it entered its select, and
\* every message taken from the facade inbox is forwarded.
C32_AsStated ==
  /\ [](IsPrefix(taken, fenq))
  /\ [](Discarded = {})
  /\ [](ppc \in {"select", "cancel_wait"} => fwd = taken)

\* What the proxy does guarantee around C32: messages leave the facade
\* inbox in the order it accepted them and only while the task holds a
\* state with a link that was alive when the select was entered; those
\* that reach a backing inbox reach it in that same order.
ProxyForwardsInOrder ==
  /\ [](IsPrefix(taken, fenq))
  /\ [](fwd = Without(taken, Discarded \cup {pmsg}))
  /\ [][taken' # taken => (recvOn /\ HasLink(tstate) /\ ppc = "select")]_vars
  /\ [][fwd' # fwd => (BackAlive(tstate) /\ fwd' = Append(fwd, pmsg))]_vars

\* a message sent before init() stayed in the facade inbox, was taken by
\* the task after init() and went into the backing inbox; meanwhile the
\* other one was taken too
C32_Witness ==
  /\ pstate = 1 /\ tstate = 1
  /\ Len(fwd) >= 1
  /\ Len(taken) = NMsgs

\* C33: a reply channel only ever carries a value computed for its own
\* message (or an error value, which belongs to no message), so a caller
\* whose reply() yields a handler's value gets the value its own message
\* produced, computed when that message was handled.
C33_ReplyToItsRequest ==
  /\ [](\A m \in Msgs : val[m].m \in {0, m})
  /\ [][\A m \in Msgs :
          (sends'[m] > sends[m] /\ val'[m].k = "val") =>
             (val'[m] = Val(m) /\ Seen(m) > 0)]_vars
  /\ [](\A m \in Msgs :
          (result[m] = "Reply" /\ val[m].k = "val") =>
             (val[m].m = m /\ Seen(m) > 0 /\ val[m].n = Seen(m)))

\* the two messages were in flight together, the second was handled first,
\* and each caller received the value of its own message
C33_Witness ==
  /\ Seen(2) = 1 /\ Seen(1) = 2
  /\ result[1] = "Reply" /\ val[1] = [k |-> "val", m |-> 1, n |-> 2]
  /\ result[2] = "Reply" /\ val[2] = [k |-> "val", m |-> 2, n |-> 1]

C35_TickLeavesInbox ==
  /\ [][(TickDone /\ ~procExit) =>
          /\ inbox' = inbox /\ enq' = enq
          /\ log' = log /\ cur = 0 /\ cur' = 0 /\ cell' = "none"
          /\ ch' = ch /\ mpc' = mpc /\ val' = val
          /\ pc' = "idle"]_vars
  /\ [][Dispatch => (inbox # <<>> /\ cur' = Head(inbox)
                       /\ inbox' = Tail(inbox))]_vars
  /\ [](\A q \in tickInbox : q # <<>> =>
          (Head(q) \in Range(inbox) \/ Seen(Head(q)) > 0 \/ LoopOver))
  /\ [](( pc = "idle" /\ inbox # <<>> /\ ~procExit) => ENABLED Act(CycleRecv))

\* a tick completed while a message was queued, and a later cycle handled
\* that message
C35_Witness ==
  /\ \E q \in tickInbox : q # <<>> /\ cur = Head(q)
  /\ pc = "handling"
  /\ Len(log) >= 1 /\ log[Len(log)] = cur

\* C36: alive() is true exactly while the actor task has not ended (during
\* init, at the select, in a handler, in terminate), and once false it stays
\* false.  A cancelled token does not make it false: while the task of a
\* cancelled actor runs alive() is true, and a send that returns then is
\* accepted (the envelope is queued, the handle is a success handle), and
\* can return as soon as the inbox has room.
C36_AliveUntilRxDropped ==
  /\ [](alive <=> pc \in {"init", "idle", "handling", "terminating"})
  /\ [][~alive => ~alive']_vars
  /\ []((is_cancelled(tok) /\ pc \notin {"exited", "panicked"}) => alive)
  /\ [][\A m \in Msgs :
          (SendReturns(m) /\ is_cancelled(tok) /\ pc \notin {"exited", "panicked"}) =>
             /\ mpc'[m] = "pending" /\ was_sent(m)' /\ send_error(m)' = "None"
             /\ inbox' = Append(inbox, m)]_vars
  /\ [](\A m \in Msgs :
          ( /\ InSend(m) /\ relay[m] = "-" /\ ~procExit
            /\ is_cancelled(tok) /\ pc \notin {"exited", "panicked"}
            /\ Len(inbox) < cap ) => ENABLED Act(SendComplete(m)))

\* the token is cancelled, the loop has not left its cycle, alive() is
\* true and a send issued after the cancel is about to be accepted
C36_Witness ==
  /\ is_cancelled(tok) /\ pc \in {"idle", "handling"} /\ alive
  /\ \E m \in Msgs :
       /\ m \in late /\ InSend(m) /\ Len(inbox) < cap
       /\ ENABLED Act(SendComplete(m))

(***************************************************************************)
(* Properties of the direction of cancellation.                            *)
(***************************************************************************)
\* thread t makes a step of a cancel() call on token c: the call itself or
\* a turn of the pass it started
CancelOf(t, c) ==
  \/ tpc[t] = "idle" /\ Cancel(t, c)
  \/ /\ tpc[t] = "cancel" /\ CancelStep(t)
     /\ tstack[t][Len(tstack[t])].node = c

\* the tokens on which a child() call returned token c
CreatedFrom(c) ==
  {p \in Nodes : parent[c] = p} \cup (IF c \in selfRet THEN {c} ELSE {})

\* thread t makes a step of a reset() call on token n
ResetOf(t, n) ==
  \/ tpc[t] = "idle" /\ ResetClear(t, n)
  \/ tpc[t] = "reset" /\ targ[t] = n /\ ResetSet(t)

CancelNeverClimbs ==
  /\ [][\A t \in Threads, c \in Nodes :
          CancelOf(t, c) =>
             \A k \in Nodes : state'[k] # state[k] => (k = c \/ IsDesc(k, c))]_vars
  /\ [][\A t \in Threads, n \in Nodes :
          ResetOf(t, n) => \A k \in Nodes \ {n} : state'[k] = state[k]]_vars
  /\ [][\A t \in Threads, c \in selfRet :
          (CancelOf(t, c) /\ state'[c] # state[c]) =>
             (resetUsed /\ state[c] = Running)]_vars

InShutdown == sd \in {"cancelled", "waiting"} /\ HasLink(sdgen)

\* C38 as stated: a shutdown() called after init() returns, and when it
\* returns the backing actor of the state it shut down has exited.
C38_AsStated ==
  /\ InShutdown ~> (sd = "returned")
  /\ [][(InShutdown /\ sd' = "returned") => bpc'[sdgen] = "exited"]_vars

\* What holds: a shutdown() that returns does so after the backing actor
\* of its state exited, and one that is inside notified() when the task
\* takes the cancel branch for its state returns.
ShutdownReturnsAfterExit ==
  /\ [][(InShutdown /\ sd' = "returned") => bpc'[sdgen] = "exited"]_vars
  /\ (sd = "waiting" /\ ppc = "cancel_wait" /\ tstate = sdgen)
        ~> (sd = "returned")

\* Once the task has entered its select on a state whose token shutdown()
\* had cancelled before, the cancel branch is disabled for good: that
\* shutdown() never returns, and a backing actor that is in its loop is
\* never cancelled.
ShutdownMissed ==
  /\ [](( /\ sd = "waiting" /\ tstate = sdgen /\ HasLink(sdgen)
          /\ ppc = "select" /\ ~cancelOn )
           => [](sd = "waiting"))
  /\ \A g \in Gens :
       [](( /\ sd = "waiting" /\ tstate = g /\ sdgen = g
            /\ ppc = "select" /\ ~cancelOn /\ bpc[g] = "idle" )
             => [](~btok[g] /\ bpc[g] # "exited"))

\* shutdown() cancelled the token of the state that init() installed
\* before the task received that state; the task then entered its select
\* on that state with the cancel branch disabled, and shutdown() waits
C38_Witness ==
  /\ sd = "waiting" /\ sdgen = 1 /\ tstate = 1
  /\ ppc = "select" /\ ~cancelOn
  /\ bpc[1] = "idle" /\ ~btok[1]

\* the backing actor of the state the Proxy holds is cancelled or gone
CurrentBackCancelled ==
  \A g \in Gens : pstate = g => (btok[g] \/ bpc[g] = "exited")

\* C39 as stated: once init() has run, a cancel of the external Link (by
\* cancel, by cancel_and_wait or by the drop of its last clone) is followed
\* by the cancellation of the current backing actor, and a cancel_and_wait
\* on the external Link returns.
C39_AsStated ==
  /\ []((pstate >= 1 /\ ~xtok) => [](xtok => <>CurrentBackCancelled))
  /\ []((pstate >= 1 /\ xcw = "none") =>
          [](xcw = "waiting" => <>(xcw = "returned")))

\* What holds: a step that cancels the external Link's token cancels no
\* ProxyState token and no backing actor; a backing actor is cancelled
\* only by the task's cancel branch for its state, by its own failed init
\* or by the drop of its state; and cancel_and_wait on the external Link
\* returns only when the task has ended.
ExternalCancelStaysOutside ==
  /\ [][(~xtok /\ xtok') => (btok' = btok /\ gtok' = gtok /\ bpc' = bpc)]_vars
  /\ [][\A g \in Gens :
          (~btok[g] /\ btok'[g]) =>
             \/ (ppc = "select" /\ cancelOn /\ tstate = g /\ gtok[g])
             \/ bpc[g] = "init"]_vars
  /\ [](xcw = "returned" => ppc = "done")

\* after init() the task selects on state 1, whose token is Running; the
\* external Link was cancelled by a cancel_and_wait that is waiting, and
\* the backing actor is in its loop, not cancelled
C39_Witness ==
  /\ xtok /\ xlinks > 0 /\ xcw = "waiting"
  /\ pstate = 1 /\ tstate = 1 /\ proxyAlive
  /\ ppc = "select" /\ cancelOn /\ ~gtok[1]
  /\ bpc[1] = "idle" /\ ~btok[1]

(***************************************************************************)
(* Properties of the MessageHandle value.                                  *)
(***************************************************************************)
\* C40: no reply() and no try_reply() on a handle built by success or
\* failed returns AlreadyConsumed, whatever calls of timeout, was_sent and
\* send_error came before.  A handle in the caller's hands has its
\* receiver exactly when it is a success handle, and those calls leave
\* receiver, sent_successfully and send_error as they are.
C40_NeverAlreadyConsumed ==
  /\ [](hres # "AlreadyConsumed")
  /\ [](hpc = "held" => (hnd.receiver = "Some" <=> hnd.sent_successfully))
  /\ [](hpc = "held" =>
          /\ handle_reply(hnd, hch) # "AlreadyConsumed"
          /\ handle_try_reply(hnd, hch) # "AlreadyConsumed")
  /\ [][(hpc = "held" /\ hcalls' # hcalls) =>
          /\ hnd'.receiver = hnd.receiver
          /\ hnd'.sent_successfully = hnd.sent_successfully
          /\ hnd'.send_error = hnd.send_error]_vars

\* reply() or try_reply() returned on a success handle after three calls
\* on it, a timeout(d) and a was_sent() among them
C40_Witness ==
  /\ hpc = "moved" /\ hnd.sent_successfully
  /\ hres \in {"Reply", "RecvFailed", "Timeout", "try:Some", "try:None",
               "try:SendFailed"}
  /\ Len(hcalls) = MaxCalls
  /\ \E i, j \in 1..Len(hcalls) :
       hcalls[i] = "timeout" /\ hcalls[j] = "was_sent:true"

====
